---- MODULE Spec2Model ----
(***************************************************************************)
(* Model of the YouTube channel finder (find_creators.py) and the YouTube  *)
(* video scraper (scraper.py): proxy rotation and blacklisting, the retry  *)
(* loop, API enrichment (fusion), location inference and confidence        *)
(* scoring.  The two scripts are separate programs; the variable `program` *)
(* says which of them a behaviour is a run of.                             *)
(***************************************************************************)
EXTENDS Integers, Sequences, FiniteSets, TLC

\* ------------------------------------------------------------------------
\* Bounds of the model (not program constants)
\* ------------------------------------------------------------------------
MaxPool == 3
MaxFailures == 6
MaxSuccess == 5
MaxItems == 2
MaxTitles == 2

\* ------------------------------------------------------------------------
\* Program constants
\* ------------------------------------------------------------------------
blacklist_threshold == 5
rotation_interval == 4

None == "None"
Endpoints == {"p1", "p2"}
Programs == {"find_creators", "scraper"}

Range(s) == {s[i] : i \in 1..Len(s)}
SetMin(S) == CHOOSE x \in S : \A y \in S : x <= y

\* the contents proxies.txt can have: any list of endpoints, repeats included
Pools == UNION {[1..n -> Endpoints] : n \in 0..MaxPool}

VARIABLES
    program,          \* which script runs
    proxies,          \* ProxyManager.proxies
    current_index,    \* ProxyManager.current_index (0-based)
    successful_uses,  \* ProxyManager.successful_uses (find_creators only)
    proxy_failures,   \* ProxyManager.proxy_failures, absent key = 0
    op,               \* history: the last ProxyManager call
    ret,              \* history: what the last get_next_proxy returned
    forced,           \* history: was the last get_next_proxy forced
    failCalls,        \* history: number of report_failure calls per endpoint
    consec,           \* history: report_success calls in a row on one cursor
    streakAtGet,      \* history: consec when the last get_next_proxy was called
    curAtGet,         \* history: the endpoint under the cursor at that call
    pc,               \* where the running script is
    video_ids,        \* scraper.py run: the ids to scrape, in input order
    i,                \* the loop index of run / search_channels (1-based)
    attempt,          \* scrape_video: the attempt number (0-based)
    scraped_videos,   \* YouTubeScraper.scraped_videos
    failed_videos,    \* YouTubeScraper.failed_videos
    saved_videos,     \* the records in results/<timestamp>_videos.csv/.json
    saved_failed,     \* the records in results/failed.csv
    api_key,          \* YouTubeAPI.api_key
    api_videos,       \* enrich_with_api: what get_video_details returned
    api_channels,     \* enrich_with_api: what get_channel_details returned
    beforeEnrich,     \* history: scraped_videos when enrich_with_api started
    attemptLog,       \* history: every extraction attempt made, in order
    location,         \* the location the user entered (None when skipped)
    loc_text,         \* the text last given to _extract_location_from_text
    loc_result,       \* what _extract_location_from_text returned for it
    scraped_data,     \* scrape_channel: the data dict of the last channel
    query,            \* search_channels: niche plus sub-niche
    max_results,      \* search_channels: max_results
    channel_details,  \* search_channels: the channels to scrape, in dict order
    enriched_channels,    \* search_channels: the merged, scored channels
    scraped_channel_ids,  \* ChannelFinder.scraped_channel_ids
    saved_channels,   \* the records in results/<timestamp>_<niche>_channels.csv/.json
    search_found,     \* history: the channel ids get_channel_details answered with
    results,          \* YouTubeAPI.search_channels: the items fetched so far
    page_token,       \* YouTubeAPI.search_channels: the token of the next page
    count_text,       \* the text last given to _parse_count
    parsed            \* what _parse_count returned for it (-1: None)

pmVars == <<proxies, current_index, successful_uses, proxy_failures>>
histVars == <<op, ret, forced, failCalls, consec, streakAtGet, curAtGet>>
runVars == <<video_ids, i, attempt, scraped_videos, failed_videos, saved_videos,
             saved_failed, api_key, api_videos, api_channels, beforeEnrich, attemptLog>>
locVars == <<location, loc_text, loc_result, scraped_data>>
finderVars == <<query, max_results, channel_details, enriched_channels,
                scraped_channel_ids, saved_channels, search_found, results, page_token>>
parseVars == <<count_text, parsed>>
vars == <<program, pc, pmVars, histVars, runVars, locVars, finderVars, parseVars>>

\* ------------------------------------------------------------------------
\* Python dicts: a dict is a function whose domain is the set of its keys
\* ------------------------------------------------------------------------
EmptyDict == <<>>
Has(d, k) == k \in DOMAIN d
Put(d, k, v) == [x \in (DOMAIN d) \cup {k} |-> IF x = k THEN v ELSE d[x]]
PutIf(cond, d, k, v) == IF cond THEN Put(d, k, v) ELSE d

NumFields == {"view_count", "like_count", "comment_count"}
TextFields == {"title", "description", "channel_id"}

\* d.get(k) is truthy: the key is there and its value is not 0, '', None, []
Truthy(d, k) ==
    /\ Has(d, k)
    /\ IF k \in NumFields THEN d[k] # 0
       ELSE IF k \in TextFields THEN d[k] \notin {"", None}
       ELSE d[k] # <<>>

\* ------------------------------------------------------------------------
\* scraper.py: what one page scrape can produce
\* ------------------------------------------------------------------------
\* _extract_video_data / _extract_channel_data: a count is stored only when
\* _parse_count gave a truthy number, tags only when the list is not empty;
\* -1, "absent" and <<"absent">> stand for "key not set"
RawVideo(id, v, l, c, t, d, g, ch) ==
    LET d0 == Put(EmptyDict, "video_id", id)
        d1 == PutIf(v # -1, d0, "view_count", v)
        d2 == PutIf(l # -1, d1, "like_count", l)
        d3 == PutIf(c # -1, d2, "comment_count", c)
        d4 == PutIf(t # "absent", d3, "title", t)
        d5 == PutIf(d # "absent", d4, "description", d)
        d6 == PutIf(g # <<"absent">>, d5, "tags", g)
    IN  PutIf(ch # "absent", d6, "channel_id", ch)

\* scrape_video_with_playwright: the merged result with its provenance tags
MarkScrapedNoTags(raw) == raw
MarkScraped(raw) ==
    LET r1 == PutIf(Truthy(raw, "view_count"), raw, "field_source_view_count", "scraped")
        r2 == PutIf(Truthy(raw, "like_count"), r1, "field_source_like_count", "scraped")
    IN  PutIf(Truthy(raw, "comment_count"), r2, "field_source_comment_count", "scraped")

ScrapedVideos(id) ==
    {MarkScraped(RawVideo(id, v, l, c, t, d, g, ch)) :
        v \in {-1, 500}, l \in {-1, 40}, c \in {-1, 7},
        t \in {"absent", "", "T"}, d \in {"absent", "D"},
        g \in {<<"absent">>, <<"tag">>}, ch \in {"absent", "UC1"}}

\* a record with every field scraped, and one with nothing but its id
FullVideo(id) == MarkScraped(RawVideo(id, 500, 40, 7, "T", "D", <<"tag">>, "UC1"))
NoCommentVideo(id) == MarkScraped(RawVideo(id, 500, 40, -1, "T", "D", <<"tag">>, "UC1"))
BareVideo(id) == MarkScraped(RawVideo(id, -1, -1, -1, "absent", "absent", <<"absent">>, "absent"))

\* ------------------------------------------------------------------------
\* YouTube Data API answers (external): one item per id the API knows
\* ------------------------------------------------------------------------
ApiStatistics ==
    {PutIf(lc[2] # -1, PutIf(lc[1] # -1, PutIf(v # -1, EmptyDict, "viewCount", v),
                             "likeCount", lc[1]), "commentCount", lc[2]) :
        v \in {-1, 0, 900}, lc \in {<<-1, -1>>, <<90, 9>>}}

ApiSnippets ==
    { EmptyDict,
      [title |-> "AT", description |-> "AD", tags |-> <<"atag">>, channelId |-> "UCA"] }

\* the one item of a whole run: every statistic and every snippet field
RunApiItems ==
    {[statistics |-> [viewCount |-> 900, likeCount |-> 90, commentCount |-> 9],
      snippet |-> [title |-> "AT", description |-> "AD", tags |-> <<"atag">>,
                   channelId |-> "UCA"]]}

\* get_channel_details: statistics per channel id
ApiChannels ==
    { EmptyDict,
      [UC1 |-> [subscriberCount |-> 1000, videoCount |-> 12, viewCount |-> 50000]] }

ApiItems == {[statistics |-> st, snippet |-> sn] : st \in ApiStatistics, sn \in ApiSnippets}

\* int(stats.get(key, 0))
StatInt(stats, key) == IF Has(stats, key) THEN stats[key] ELSE 0
\* snippet.get(key)
SnipGet(snippet, key) == IF Has(snippet, key) THEN snippet[key] ELSE None

\* ------------------------------------------------------------------------
\* scraper.py YouTubeScraper.enrich_with_api
\* ------------------------------------------------------------------------
\* needs_video_data
NeedsVideoData(videos) ==
    \E n \in 1..Len(videos) :
        \/ ~Truthy(videos[n], "view_count")
        \/ ~Truthy(videos[n], "like_count")
        \/ ~Truthy(videos[n], "title")
        \/ ~Truthy(videos[n], "channel_id")

\* "Only fill missing data" for one numeric statistic; the comment count has
\* no else branch
FillStatAlways(video, field, stats, key, tagScraped) ==
    Put(Put(video, field, StatInt(stats, key)), "field_source_" \o field, "api")
FillStat(video, field, stats, key, tagScraped) ==
    IF ~Truthy(video, field)
    THEN Put(Put(video, field, StatInt(stats, key)), "field_source_" \o field, "api")
    ELSE IF tagScraped THEN Put(video, "field_source_" \o field, "scraped")
    ELSE video

\* "Fill missing metadata"
FillMetaAlways(video, field, value) == Put(video, field, value)
FillMeta(video, field, value) ==
    IF ~Truthy(video, field) THEN Put(video, field, value) ELSE video

\* the body of "for video in videos" when vid is in api_videos
EnrichVideo(video, api_data) ==
    LET stats == api_data.statistics
        snippet == api_data.snippet
        v1 == FillStat(video, "view_count", stats, "viewCount", TRUE)
        v2 == FillStat(v1, "like_count", stats, "likeCount", TRUE)
        v3 == FillStat(v2, "comment_count", stats, "commentCount", FALSE)
        v4 == FillMeta(v3, "title", SnipGet(snippet, "title"))
        v5 == FillMeta(v4, "description", SnipGet(snippet, "description"))
        v6 == FillMeta(v5, "tags", IF Has(snippet, "tags") THEN snippet.tags ELSE <<>>)
    IN  FillMeta(v6, "channel_id", SnipGet(snippet, "channelId"))

\* the channel statistics loop; channels maps channel ids to statistics
EnrichChannel(video, channels) ==
    IF Truthy(video, "channel_id") /\ Has(channels, video["channel_id"])
    THEN LET cs == channels[video["channel_id"]]
         IN  Put(Put(Put(Put(video,
                 "channel_subscriber_count", StatInt(cs, "subscriberCount")),
                 "channel_video_count", StatInt(cs, "videoCount")),
                 "channel_view_count", StatInt(cs, "viewCount")),
                 "field_source_channel_stats", "api")
    ELSE video

\* api_videos as enrich_with_api holds it: fetched only when needed
FetchedVideos(videos, key, answer) ==
    IF key # "" /\ NeedsVideoData(videos) THEN answer ELSE EmptyDict

\* api_channels as enrich_with_api holds it: nothing is asked without a key
FetchedChannels(key, channels) == IF key # "" THEN channels ELSE EmptyDict

\* the whole of enrich_with_api: the list after the in-place update
enrich_with_api(videos, key, answer, channels) ==
    IF key = "" THEN videos
    ELSE LET fetched == FetchedVideos(videos, key, answer)
             step1 == [n \in 1..Len(videos) |->
                         IF Has(fetched, videos[n]["video_id"])
                         THEN EnrichVideo(videos[n], fetched[videos[n]["video_id"]])
                         ELSE videos[n]]
         IN  [n \in 1..Len(videos) |-> EnrichChannel(step1[n], channels)]

\* ------------------------------------------------------------------------
\* Text: a Python str is the tuple of its characters, one string per
\* character ("U+221A" names a non-ASCII character); None is NoneText
\* ------------------------------------------------------------------------
NoneText == <<"<None>">>

ToLower ==
    [A |-> "a", B |-> "b", C |-> "c", D |-> "d", E |-> "e", F |-> "f", G
     |-> "g", H |-> "h", I |-> "i", J |-> "j", K |-> "k", L |-> "l", M |->
     "m", N |-> "n", O |-> "o", P |-> "p", Q |-> "q", R |-> "r", S |-> "s",
     T |-> "t", U |-> "u", V |-> "v", W |-> "w", X |-> "x", Y |-> "y", Z
     |-> "z"]
ToUpper ==
    [a |-> "A", b |-> "B", c |-> "C", d |-> "D", e |-> "E", f |-> "F", g
     |-> "G", h |-> "H", i |-> "I", j |-> "J", k |-> "K", l |-> "L", m |->
     "M", n |-> "N", o |-> "O", p |-> "P", q |-> "Q", r |-> "R", s |-> "S",
     t |-> "T", u |-> "U", v |-> "V", w |-> "W", x |-> "X", y |-> "Y", z
     |-> "Z"]

LowerChar(c) == IF c \in DOMAIN ToLower THEN ToLower[c] ELSE c
UpperChar(c) == IF c \in DOMAIN ToUpper THEN ToUpper[c] ELSE c

\* str.lower(), str.upper()
Lower(s) == <<>> \o [k \in 1..Len(s) |-> LowerChar(s[k])]
Upper(s) == <<>> \o [k \in 1..Len(s) |-> UpperChar(s[k])]

\* needle in hay
Contains(needle, hay) ==
    \E st \in 0..(Len(hay) - Len(needle)) :
        \A k \in 1..Len(needle) : hay[st + k] = needle[k]

\* a str value that is truthy: not None and not ''
TruthyText(s) == s # NoneText /\ s # <<>>

\* ------------------------------------------------------------------------
\* find_creators.py ChannelScraper._extract_location_from_text
\* ------------------------------------------------------------------------
\* the "locations" table, in declaration order
Locations == <<
  [country |-> <<"U", "S", "A">>,    \* USA
   keywords |-> <<
      <<"U", "S", "A">>,    \* USA
      <<"U", "n", "i", "t", "e", "d", " ", "S", "t", "a", "t", "e", "s">>,    \* United States
      <<"A", "m", "e", "r", "i", "c", "a">>,    \* America
      <<"A", "m", "e", "r", "i", "c", "a", "n">>,    \* American
      <<"U", "S">>     \* US
   >>,
   cities |-> <<
      <<"N", "e", "w", " ", "Y", "o", "r", "k">>,    \* New York
      <<"N", "Y", "C">>,    \* NYC
      <<"L", "o", "s", " ", "A", "n", "g", "e", "l", "e", "s">>,    \* Los Angeles
      <<"L", "A">>,    \* LA
      <<"C", "h", "i", "c", "a", "g", "o">>,    \* Chicago
      <<"H", "o", "u", "s", "t", "o", "n">>,    \* Houston
      <<"M", "i", "a", "m", "i">>,    \* Miami
      <<"P", "h", "o", "e", "n", "i", "x">>,    \* Phoenix
      <<"P", "h", "i", "l", "a", "d", "e", "l", "p", "h", "i", "a">>,    \* Philadelphia
      <<"S", "a", "n", " ", "A", "n", "t", "o", "n", "i", "o">>,    \* San Antonio
      <<"S", "a", "n", " ", "D", "i", "e", "g", "o">>,    \* San Diego
      <<"D", "a", "l", "l", "a", "s">>,    \* Dallas
      <<"S", "a", "n", " ", "J", "o", "s", "e">>,    \* San Jose
      <<"A", "u", "s", "t", "i", "n">>,    \* Austin
      <<"J", "a", "c", "k", "s", "o", "n", "v", "i", "l", "l", "e">>,    \* Jacksonville
      <<"S", "a", "n", " ", "F", "r", "a", "n", "c", "i", "s", "c", "o">>,    \* San Francisco
      <<"S", "e", "a", "t", "t", "l", "e">>,    \* Seattle
      <<"D", "e", "n", "v", "e", "r">>,    \* Denver
      <<"B", "o", "s", "t", "o", "n">>,    \* Boston
      <<"P", "o", "r", "t", "l", "a", "n", "d">>,    \* Portland
      <<"L", "a", "s", " ", "V", "e", "g", "a", "s">>,    \* Las Vegas
      <<"A", "t", "l", "a", "n", "t", "a">>     \* Atlanta
   >>],
  [country |-> <<"U", "K">>,    \* UK
   keywords |-> <<
      <<"U", "K">>,    \* UK
      <<"U", "n", "i", "t", "e", "d", " ", "K", "i", "n", "g", "d", "o", "m">>,    \* United Kingdom
      <<"B", "r", "i", "t", "a", "i", "n">>,    \* Britain
      <<"B", "r", "i", "t", "i", "s", "h">>,    \* British
      <<"E", "n", "g", "l", "a", "n", "d">>,    \* England
      <<"S", "c", "o", "t", "l", "a", "n", "d">>,    \* Scotland
      <<"W", "a", "l", "e", "s">>     \* Wales
   >>,
   cities |-> <<
      <<"L", "o", "n", "d", "o", "n">>,    \* London
      <<"M", "a", "n", "c", "h", "e", "s", "t", "e", "r">>,    \* Manchester
      <<"B", "i", "r", "m", "i", "n", "g", "h", "a", "m">>,    \* Birmingham
      <<"L", "i", "v", "e", "r", "p", "o", "o", "l">>,    \* Liverpool
      <<"L", "e", "e", "d", "s">>,    \* Leeds
      <<"G", "l", "a", "s", "g", "o", "w">>,    \* Glasgow
      <<"E", "d", "i", "n", "b", "u", "r", "g", "h">>,    \* Edinburgh
      <<"B", "r", "i", "s", "t", "o", "l">>,    \* Bristol
      <<"C", "a", "r", "d", "i", "f", "f">>,    \* Cardiff
      <<"B", "e", "l", "f", "a", "s", "t">>     \* Belfast
   >>],
  [country |-> <<"C", "a", "n", "a", "d", "a">>,    \* Canada
   keywords |-> <<
      <<"C", "a", "n", "a", "d", "a">>,    \* Canada
      <<"C", "a", "n", "a", "d", "i", "a", "n">>     \* Canadian
   >>,
   cities |-> <<
      <<"T", "o", "r", "o", "n", "t", "o">>,    \* Toronto
      <<"V", "a", "n", "c", "o", "u", "v", "e", "r">>,    \* Vancouver
      <<"M", "o", "n", "t", "r", "e", "a", "l">>,    \* Montreal
      <<"C", "a", "l", "g", "a", "r", "y">>,    \* Calgary
      <<"O", "t", "t", "a", "w", "a">>,    \* Ottawa
      <<"E", "d", "m", "o", "n", "t", "o", "n">>,    \* Edmonton
      <<"W", "i", "n", "n", "i", "p", "e", "g">>,    \* Winnipeg
      <<"Q", "u", "e", "b", "e", "c", " ", "C", "i", "t", "y">>     \* Quebec City
   >>],
  [country |-> <<"A", "u", "s", "t", "r", "a", "l", "i", "a">>,    \* Australia
   keywords |-> <<
      <<"A", "u", "s", "t", "r", "a", "l", "i", "a">>,    \* Australia
      <<"A", "u", "s", "t", "r", "a", "l", "i", "a", "n">>,    \* Australian
      <<"A", "u", "s", "s", "i", "e">>     \* Aussie
   >>,
   cities |-> <<
      <<"S", "y", "d", "n", "e", "y">>,    \* Sydney
      <<"M", "e", "l", "b", "o", "u", "r", "n", "e">>,    \* Melbourne
      <<"B", "r", "i", "s", "b", "a", "n", "e">>,    \* Brisbane
      <<"P", "e", "r", "t", "h">>,    \* Perth
      <<"A", "d", "e", "l", "a", "i", "d", "e">>,    \* Adelaide
      <<"G", "o", "l", "d", " ", "C", "o", "a", "s", "t">>,    \* Gold Coast
      <<"C", "a", "n", "b", "e", "r", "r", "a">>     \* Canberra
   >>],
  [country |-> <<"I", "n", "d", "i", "a">>,    \* India
   keywords |-> <<
      <<"I", "n", "d", "i", "a">>,    \* India
      <<"I", "n", "d", "i", "a", "n">>     \* Indian
   >>,
   cities |-> <<
      <<"M", "u", "m", "b", "a", "i">>,    \* Mumbai
      <<"D", "e", "l", "h", "i">>,    \* Delhi
      <<"B", "a", "n", "g", "a", "l", "o", "r", "e">>,    \* Bangalore
      <<"H", "y", "d", "e", "r", "a", "b", "a", "d">>,    \* Hyderabad
      <<"C", "h", "e", "n", "n", "a", "i">>,    \* Chennai
      <<"K", "o", "l", "k", "a", "t", "a">>,    \* Kolkata
      <<"P", "u", "n", "e">>,    \* Pune
      <<"A", "h", "m", "e", "d", "a", "b", "a", "d">>     \* Ahmedabad
   >>],
  [country |-> <<"G", "e", "r", "m", "a", "n", "y">>,    \* Germany
   keywords |-> <<
      <<"G", "e", "r", "m", "a", "n", "y">>,    \* Germany
      <<"G", "e", "r", "m", "a", "n">>,    \* German
      <<"D", "e", "u", "t", "s", "c", "h", "l", "a", "n", "d">>     \* Deutschland
   >>,
   cities |-> <<
      <<"B", "e", "r", "l", "i", "n">>,    \* Berlin
      <<"M", "u", "n", "i", "c", "h">>,    \* Munich
      <<"H", "a", "m", "b", "u", "r", "g">>,    \* Hamburg
      <<"F", "r", "a", "n", "k", "f", "u", "r", "t">>,    \* Frankfurt
      <<"C", "o", "l", "o", "g", "n", "e">>,    \* Cologne
      <<"S", "t", "u", "t", "t", "g", "a", "r", "t">>     \* Stuttgart
   >>],
  [country |-> <<"F", "r", "a", "n", "c", "e">>,    \* France
   keywords |-> <<
      <<"F", "r", "a", "n", "c", "e">>,    \* France
      <<"F", "r", "e", "n", "c", "h">>     \* French
   >>,
   cities |-> <<
      <<"P", "a", "r", "i", "s">>,    \* Paris
      <<"M", "a", "r", "s", "e", "i", "l", "l", "e">>,    \* Marseille
      <<"L", "y", "o", "n">>,    \* Lyon
      <<"T", "o", "u", "l", "o", "u", "s", "e">>,    \* Toulouse
      <<"N", "i", "c", "e">>,    \* Nice
      <<"B", "o", "r", "d", "e", "a", "u", "x">>     \* Bordeaux
   >>],
  [country |-> <<"S", "p", "a", "i", "n">>,    \* Spain
   keywords |-> <<
      <<"S", "p", "a", "i", "n">>,    \* Spain
      <<"S", "p", "a", "n", "i", "s", "h">>,    \* Spanish
      <<"E", "s", "p", "a", "U+221A", "U+00B1", "a">>     \* Espa??a
   >>,
   cities |-> <<
      <<"M", "a", "d", "r", "i", "d">>,    \* Madrid
      <<"B", "a", "r", "c", "e", "l", "o", "n", "a">>,    \* Barcelona
      <<"V", "a", "l", "e", "n", "c", "i", "a">>,    \* Valencia
      <<"S", "e", "v", "i", "l", "l", "e">>,    \* Seville
      <<"M", "a", "l", "a", "g", "a">>     \* Malaga
   >>],
  [country |-> <<"B", "r", "a", "z", "i", "l">>,    \* Brazil
   keywords |-> <<
      <<"B", "r", "a", "z", "i", "l">>,    \* Brazil
      <<"B", "r", "a", "z", "i", "l", "i", "a", "n">>,    \* Brazilian
      <<"B", "r", "a", "s", "i", "l">>     \* Brasil
   >>,
   cities |-> <<
      <<"S", "U+221A", "U+00A3", "o", " ", "P", "a", "u", "l", "o">>,    \* S??o Paulo
      <<"R", "i", "o", " ", "d", "e", " ", "J", "a", "n", "e", "i", "r", "o">>,    \* Rio de Janeiro
      <<"B", "r", "a", "s", "U+221A", "U+2260", "l", "i", "a">>,    \* Bras??lia
      <<"S", "a", "l", "v", "a", "d", "o", "r">>,    \* Salvador
      <<"F", "o", "r", "t", "a", "l", "e", "z", "a">>     \* Fortaleza
   >>],
  [country |-> <<"M", "e", "x", "i", "c", "o">>,    \* Mexico
   keywords |-> <<
      <<"M", "e", "x", "i", "c", "o">>,    \* Mexico
      <<"M", "e", "x", "i", "c", "a", "n">>,    \* Mexican
      <<"M", "U+221A", "U+00A9", "x", "i", "c", "o">>     \* M??xico
   >>,
   cities |-> <<
      <<"M", "e", "x", "i", "c", "o", " ", "C", "i", "t", "y">>,    \* Mexico City
      <<"G", "u", "a", "d", "a", "l", "a", "j", "a", "r", "a">>,    \* Guadalajara
      <<"M", "o", "n", "t", "e", "r", "r", "e", "y">>,    \* Monterrey
      <<"C", "a", "n", "c", "u", "n">>,    \* Cancun
      <<"T", "i", "j", "u", "a", "n", "a">>     \* Tijuana
   >>],
  [country |-> <<"I", "t", "a", "l", "y">>,    \* Italy
   keywords |-> <<
      <<"I", "t", "a", "l", "y">>,    \* Italy
      <<"I", "t", "a", "l", "i", "a", "n">>,    \* Italian
      <<"I", "t", "a", "l", "i", "a">>     \* Italia
   >>,
   cities |-> <<
      <<"R", "o", "m", "e">>,    \* Rome
      <<"M", "i", "l", "a", "n">>,    \* Milan
      <<"N", "a", "p", "l", "e", "s">>,    \* Naples
      <<"T", "u", "r", "i", "n">>,    \* Turin
      <<"F", "l", "o", "r", "e", "n", "c", "e">>,    \* Florence
      <<"V", "e", "n", "i", "c", "e">>     \* Venice
   >>],
  [country |-> <<"N", "e", "t", "h", "e", "r", "l", "a", "n", "d", "s">>,    \* Netherlands
   keywords |-> <<
      <<"N", "e", "t", "h", "e", "r", "l", "a", "n", "d", "s">>,    \* Netherlands
      <<"D", "u", "t", "c", "h">>,    \* Dutch
      <<"H", "o", "l", "l", "a", "n", "d">>     \* Holland
   >>,
   cities |-> <<
      <<"A", "m", "s", "t", "e", "r", "d", "a", "m">>,    \* Amsterdam
      <<"R", "o", "t", "t", "e", "r", "d", "a", "m">>,    \* Rotterdam
      <<"T", "h", "e", " ", "H", "a", "g", "u", "e">>,    \* The Hague
      <<"U", "t", "r", "e", "c", "h", "t">>     \* Utrecht
   >>],
  [country |-> <<"J", "a", "p", "a", "n">>,    \* Japan
   keywords |-> <<
      <<"J", "a", "p", "a", "n">>,    \* Japan
      <<"J", "a", "p", "a", "n", "e", "s", "e">>     \* Japanese
   >>,
   cities |-> <<
      <<"T", "o", "k", "y", "o">>,    \* Tokyo
      <<"O", "s", "a", "k", "a">>,    \* Osaka
      <<"K", "y", "o", "t", "o">>,    \* Kyoto
      <<"Y", "o", "k", "o", "h", "a", "m", "a">>,    \* Yokohama
      <<"N", "a", "g", "o", "y", "a">>     \* Nagoya
   >>],
  [country |-> <<"S", "o", "u", "t", "h", " ", "K", "o", "r", "e", "a">>,    \* South Korea
   keywords |-> <<
      <<"K", "o", "r", "e", "a">>,    \* Korea
      <<"K", "o", "r", "e", "a", "n">>,    \* Korean
      <<"S", "o", "u", "t", "h", " ", "K", "o", "r", "e", "a">>     \* South Korea
   >>,
   cities |-> <<
      <<"S", "e", "o", "u", "l">>,    \* Seoul
      <<"B", "u", "s", "a", "n">>,    \* Busan
      <<"I", "n", "c", "h", "e", "o", "n">>,    \* Incheon
      <<"D", "a", "e", "g", "u">>     \* Daegu
   >>],
  [country |-> <<"P", "h", "i", "l", "i", "p", "p", "i", "n", "e", "s">>,    \* Philippines
   keywords |-> <<
      <<"P", "h", "i", "l", "i", "p", "p", "i", "n", "e", "s">>,    \* Philippines
      <<"F", "i", "l", "i", "p", "i", "n", "o">>,    \* Filipino
      <<"P", "i", "n", "o", "y">>     \* Pinoy
   >>,
   cities |-> <<
      <<"M", "a", "n", "i", "l", "a">>,    \* Manila
      <<"Q", "u", "e", "z", "o", "n", " ", "C", "i", "t", "y">>,    \* Quezon City
      <<"D", "a", "v", "a", "o">>,    \* Davao
      <<"C", "e", "b", "u">>     \* Cebu
   >>]
>>

\* the tld_map of _infer_country_from_domain, in declaration order
TldMap == <<
  [tld |-> <<".", "u", "k">>, country |-> <<"U", "K">>],    \* .uk: UK
  [tld |-> <<".", "c", "o", ".", "u", "k">>, country |-> <<"U", "K">>],    \* .co.uk: UK
  [tld |-> <<".", "c", "a">>, country |-> <<"C", "a", "n", "a", "d", "a">>],    \* .ca: Canada
  [tld |-> <<".", "a", "u">>, country |-> <<"A", "u", "s", "t", "r", "a", "l", "i", "a">>],    \* .au: Australia
  [tld |-> <<".", "d", "e">>, country |-> <<"G", "e", "r", "m", "a", "n", "y">>],    \* .de: Germany
  [tld |-> <<".", "f", "r">>, country |-> <<"F", "r", "a", "n", "c", "e">>],    \* .fr: France
  [tld |-> <<".", "e", "s">>, country |-> <<"S", "p", "a", "i", "n">>],    \* .es: Spain
  [tld |-> <<".", "i", "t">>, country |-> <<"I", "t", "a", "l", "y">>],    \* .it: Italy
  [tld |-> <<".", "b", "r">>, country |-> <<"B", "r", "a", "z", "i", "l">>],    \* .br: Brazil
  [tld |-> <<".", "m", "x">>, country |-> <<"M", "e", "x", "i", "c", "o">>],    \* .mx: Mexico
  [tld |-> <<".", "i", "n">>, country |-> <<"I", "n", "d", "i", "a">>],    \* .in: India
  [tld |-> <<".", "j", "p">>, country |-> <<"J", "a", "p", "a", "n">>],    \* .jp: Japan
  [tld |-> <<".", "k", "r">>, country |-> <<"S", "o", "u", "t", "h", " ", "K", "o", "r", "e", "a">>],    \* .kr: South Korea
  [tld |-> <<".", "n", "l">>, country |-> <<"N", "e", "t", "h", "e", "r", "l", "a", "n", "d", "s">>],    \* .nl: Netherlands
  [tld |-> <<".", "p", "h">>, country |-> <<"P", "h", "i", "l", "i", "p", "p", "i", "n", "e", "s">>]     \* .ph: Philippines
>>

USA == <<"U", "S", "A">>
US == <<"U", "S">>

\* the result dict before the scan
EmptyLoc == [country |-> NoneText, city |-> NoneText, confidence |-> 0]

\* the table with keyword.lower() and city.lower() beside every entry
LowerWords(words) == <<>> \o [k \in 1..Len(words) |-> Lower(words[k])]
WithLower(locations) ==
    <<>> \o [n \in 1..Len(locations) |->
        [country |-> locations[n].country,
         cities |-> locations[n].cities,
         keywords_lower |-> LowerWords(locations[n].keywords),
         cities_lower |-> LowerWords(locations[n].cities)]]
LocationsLower == WithLower(Locations)

\* some word of the (lower-cased) list occurs in the lower-cased text / the
\* position of the first that does
AnyWordIn(lwords, text_lower) ==
    \E k \in 1..Len(lwords) : Contains(lwords[k], text_lower)
FirstWordIn(lwords, text_lower) ==
    SetMin({k \in 1..Len(lwords) : Contains(lwords[k], text_lower)})

\* "for keyword in data['keywords']": 10 for the first keyword found, then break
KeywordPointsNoBreak(lwords, text_lower) ==
    10 * Cardinality({k \in 1..Len(lwords) : Contains(lwords[k], text_lower)})
KeywordPoints(lwords, text_lower) ==
    IF AnyWordIn(lwords, text_lower) THEN 10 ELSE 0

\* "Check country keywords" for one country
KeywordStep(r, loc, text_lower) ==
    IF AnyWordIn(loc.keywords_lower, text_lower)
    THEN [r EXCEPT !.country = loc.country,
                   !.confidence = @ + KeywordPoints(loc.keywords_lower, text_lower)]
    ELSE r

\* "Check cities" for one country: the first city found, then break
CityFound(r, country, city, target_location) ==
    [country |-> IF r.country = NoneText THEN country ELSE r.country,
     city |-> IF r.city = NoneText THEN city ELSE r.city,
     confidence |-> r.confidence + 15
          + (IF TruthyText(target_location) /\ Lower(city) = Lower(target_location)
             THEN 20 ELSE 0)]
CityStep(r, loc, text_lower, target_location) ==
    IF AnyWordIn(loc.cities_lower, text_lower)
    THEN CityFound(r, loc.country, loc.cities[FirstWordIn(loc.cities_lower, text_lower)],
                   target_location)
    ELSE r

\* the body of "for country, data in locations.items()" for one country
CountryStep(r, loc, text_lower, target_location) ==
    CityStep(KeywordStep(r, loc, text_lower), loc, text_lower, target_location)

RECURSIVE ScanCountries(_, _, _, _, _)
ScanCountries(r, n, locations, text_lower, target_location) ==
    IF n > Len(locations) THEN r
    ELSE ScanCountries(CountryStep(r, locations[n], text_lower, target_location),
                       n + 1, locations, text_lower, target_location)

\* "If target location is a country code, check match"
TargetCountryPoints(r, target_location) ==
    IF TruthyText(target_location) /\ r.country # NoneText
    THEN IF Upper(target_location) \in {US, USA} /\ r.country = USA THEN 20
         ELSE IF Upper(target_location) = Upper(r.country) THEN 20
         ELSE 0
    ELSE 0
TargetCountryStep(r, target_location) ==
    [r EXCEPT !.confidence = @ + TargetCountryPoints(r, target_location)]

_extract_location_from_text(text, target_location) ==
    TargetCountryStep(ScanCountries(EmptyLoc, 1, LocationsLower, Lower(text),
                                    target_location),
                      target_location)

\* ------------------------------------------------------------------------
\* find_creators.py ChannelScraper: sample videos and location aggregation
\* ------------------------------------------------------------------------
\* _infer_country_from_domain: the country of the first tld of tld_map found
\* in the url (url.endswith(tld) implies tld in url), else None
FirstTld(tld_map, hits) ==
    IF hits = {} THEN NoneText ELSE tld_map[SetMin(hits)].country
TldHits(tld_map, url_lower) ==
    {k \in 1..Len(tld_map) : Contains(tld_map[k].tld, url_lower)}
_infer_country_from_domain(url) ==
    FirstTld(TldMap, TldHits(TldMap, Lower(url)))

\* _extract_sample_videos: the video_data of one title; location_mention is
\* set only with a target location and a country or city in the title
VideoData(video_title, target_location, location_info) ==
    IF TruthyText(target_location) /\ TruthyText(video_title)
       /\ (location_info.country # NoneText \/ location_info.city # NoneText)
    THEN [video_title |-> video_title, location_mention |-> location_info]
    ELSE [video_title |-> video_title]
SampleVideo(video_title, target_location) ==
    VideoData(video_title, target_location,
              _extract_location_from_text(video_title, target_location))

SampleVideos(titles, target_location) ==
    <<>> \o [k \in 1..Len(titles) |-> SampleVideo(titles[k], target_location)]

\* numbers that need not be whole (confidence, score) are kept in hundredths
Hundredths == 100

\* "Check About text"
AboutCountry(r, about_location) ==
    IF about_location.country # NoneText
    THEN [r EXCEPT !.country = about_location.country,
                   !.confidence = @ + about_location.confidence * Hundredths,
                   !.sources = Append(@, "about_page")]
    ELSE r
AboutCity(r, about_location) ==
    IF about_location.city # NoneText THEN [r EXCEPT !.city = about_location.city] ELSE r
AboutLocation(r, about_location) ==
    AboutCity(AboutCountry(r, about_location), about_location)
AggregateAbout(r, about_text, target_location) ==
    IF TruthyText(about_text)
    THEN AboutLocation(r, _extract_location_from_text(about_text, target_location))
    ELSE r

\* "Check video titles": one video; half weight
VideoMentionFull(r, loc) ==
    [country |-> IF loc.country # NoneText /\ r.country = NoneText
                 THEN loc.country ELSE r.country,
     city |-> IF loc.city # NoneText /\ r.city = NoneText
              THEN loc.city ELSE r.city,
     confidence |-> r.confidence + loc.confidence * Hundredths,
     sources |-> IF \E k \in 1..Len(r.sources) : r.sources[k] = "video_titles"
                 THEN r.sources ELSE Append(r.sources, "video_titles")]
VideoMention(r, loc) ==
    [country |-> IF loc.country # NoneText /\ r.country = NoneText
                 THEN loc.country ELSE r.country,
     city |-> IF loc.city # NoneText /\ r.city = NoneText
              THEN loc.city ELSE r.city,
     confidence |-> r.confidence + (loc.confidence * Hundredths) \div 2,
     sources |-> IF \E k \in 1..Len(r.sources) : r.sources[k] = "video_titles"
                 THEN r.sources ELSE Append(r.sources, "video_titles")]
AggregateVideo(r, video) ==
    IF Has(video, "location_mention")
    THEN VideoMention(r, video["location_mention"])
    ELSE r

\* "Check domain from websites": one website
DomainCountryEvery(r, domain_country) ==
    IF domain_country # NoneText
    THEN [r EXCEPT !.country = domain_country,
                   !.confidence = @ + 5 * Hundredths,
                   !.sources = Append(@, "domain")]
    ELSE r
DomainCountry(r, domain_country) ==
    IF domain_country # NoneText /\ r.country = NoneText
    THEN [r EXCEPT !.country = domain_country,
                   !.confidence = @ + 5 * Hundredths,
                   !.sources = Append(@, "domain")]
    ELSE r
AggregateWebsite(r, website) ==
    DomainCountry(r, _infer_country_from_domain(website))

RECURSIVE AggregateVideos(_, _, _)
AggregateVideos(r, videos, n) ==
    IF n > Len(videos) THEN r
    ELSE AggregateVideos(AggregateVideo(r, videos[n]), videos, n + 1)

RECURSIVE AggregateWebsites(_, _, _)
AggregateWebsites(r, websites, n) ==
    IF n > Len(websites) THEN r
    ELSE AggregateWebsites(AggregateWebsite(r, websites[n]), websites, n + 1)

\* "Cap confidence at 20 for location scoring"
CapConfidenceNoCap(c) == c
CapConfidence(c) == IF c > 20 * Hundredths THEN 20 * Hundredths ELSE c

\* confidence is in hundredths
EmptyAggregate ==
    [country |-> NoneText, city |-> NoneText, confidence |-> 0, sources |-> <<>>]
CapAggregate(r) == [r EXCEPT !.confidence = CapConfidence(@)]
_aggregate_location_data(data, target_location) ==
    CapAggregate(
        AggregateWebsites(
            AggregateVideos(
                AggregateAbout(EmptyAggregate, data["about_text"], target_location),
                data["sample_videos"], 1),
            data["websites"], 1))

\* ------------------------------------------------------------------------
\* find_creators.py ChannelFinder: merging and scoring one channel
\* ------------------------------------------------------------------------
\* d.get(key) of detected_location, which is {} when the scrape failed
LocGet(d, key, default) == IF Has(d, key) THEN d[key] ELSE default

\* (text or '')
OrEmpty(text) == IF TruthyText(text) THEN text ELSE <<>>

\* str.split(): the maximal runs of non-blank characters, in order
RECURSIVE SplitFrom(_, _, _, _)
SplitFrom(s, n, word, words) ==
    IF n > Len(s) THEN (IF word = <<>> THEN words ELSE Append(words, word))
    ELSE IF s[n] = " "
         THEN SplitFrom(s, n + 1, <<>>, IF word = <<>> THEN words ELSE Append(words, word))
         ELSE SplitFrom(s, n + 1, Append(word, s[n]), words)
Split(s) == SplitFrom(s, 1, <<>>, <<>>)

\* _merge_channel_data: the fields the scorer and the ranking read
_merge_channel_data(api_data, data) ==
    [channel_id |-> data.channel_id,
     channel_name |-> api_data.snippet.title,
     channel_description |-> api_data.snippet.description,
     subscriber_count |-> api_data.statistics.subscriberCount,
     sample_video_title |-> IF data.sample_videos # <<>>
                            THEN data.sample_videos[1]["video_title"] ELSE NoneText,
     detected_location |-> data.detected_location,
     location_sources |-> LocGet(data.detected_location, "sources", <<>>),
     about_text |-> data.about_text,
     social_links |-> data.social_links,
     websites |-> data.websites,
     contact_email_public |-> IF data.emails # <<>> THEN data.emails[1] ELSE None,
     all_emails |-> data.emails,
     extraction_path |-> "api+playwright"]

\* a quotient rounded to the nearest whole number
RoundDiv(a, b) == (2 * a + b) \div (2 * b)

\* "Keyword match in title/description (0-40 points)", in hundredths
KeywordScoreTitleWords(channel, q) ==
    LET query_lower == Lower(q)
        title_lower == Lower(OrEmpty(channel.channel_name))
        desc_lower == Lower(OrEmpty(channel.channel_description))
        about_lower == Lower(OrEmpty(channel.about_text))
        query_words == Split(query_lower)
        matches == Cardinality({k \in 1..Len(query_words) :
                        Contains(query_words[k], title_lower)})
    IN  IF Contains(query_lower, title_lower) THEN 40 * Hundredths
        ELSE IF Contains(query_lower, desc_lower) THEN 30 * Hundredths
        ELSE IF Contains(query_lower, about_lower) THEN 20 * Hundredths
        ELSE RoundDiv(matches * 20 * Hundredths, Len(query_words))
KeywordScore(channel, q) ==
    LET query_lower == Lower(q)
        title_lower == Lower(OrEmpty(channel.channel_name))
        desc_lower == Lower(OrEmpty(channel.channel_description))
        about_lower == Lower(OrEmpty(channel.about_text))
        query_words == Split(query_lower)
        matches == Cardinality({k \in 1..Len(query_words) :
                        \/ Contains(query_words[k], title_lower)
                        \/ Contains(query_words[k], desc_lower)})
    IN  IF Contains(query_lower, title_lower) THEN 40 * Hundredths
        ELSE IF Contains(query_lower, desc_lower) THEN 30 * Hundredths
        ELSE IF Contains(query_lower, about_lower) THEN 20 * Hundredths
        ELSE RoundDiv(matches * 20 * Hundredths, Len(query_words))

\* math.log10 of a power of ten
RECURSIVE Log10(_)
Log10(n) == IF n < 10 THEN 0 ELSE 1 + Log10(n \div 10)

\* "Subscriber count (0-30 points, logarithmic)", in hundredths; subs is 0 or
\* a power of ten
SubscriberScore(subs) ==
    IF subs > 0
    THEN IF Log10(subs) * 5 > 30 THEN 30 * Hundredths ELSE Log10(subs) * 5 * Hundredths
    ELSE 0

\* "Check if target matches country"
CountryScore(detected_country, target_location) ==
    IF TruthyText(detected_country)
    THEN IF Upper(target_location) \in {US, USA} /\ detected_country = USA
         THEN 20 * Hundredths
         ELSE IF \/ Lower(detected_country) = Lower(target_location)
                 \/ Upper(detected_country) = Upper(target_location)
              THEN 20 * Hundredths
              ELSE 5 * Hundredths
    ELSE 0

\* "Check if target matches city"
CityScore(detected_city, target_location) ==
    IF TruthyText(detected_city) /\ Lower(detected_city) = Lower(target_location)
    THEN 20 * Hundredths ELSE 0

\* "Use location confidence from scraper": min(20, loc_confidence)
ScraperLocationScore(loc_confidence) ==
    IF loc_confidence > 20 * Hundredths THEN 20 * Hundredths ELSE loc_confidence

\* "Location match (0-20 points)", in hundredths
LocationScore(channel, target_location) ==
    IF TruthyText(target_location)
    THEN LET detected_loc == channel.detected_location
         IN  CountryScore(LocGet(detected_loc, "country", NoneText), target_location)
             + CityScore(LocGet(detected_loc, "city", NoneText), target_location)
             + ScraperLocationScore(LocGet(detected_loc, "confidence", 0))
    ELSE 0

\* "Has contact info (0-10 points)", in hundredths
ContactScore(channel) ==
    (IF channel.contact_email_public # None THEN 5 * Hundredths ELSE 0)
    + (IF channel.social_links # <<>> THEN 5 * Hundredths ELSE 0)

\* _calculate_confidence: round(score, 2), in hundredths
_calculate_confidence(channel, q, target_location) ==
    KeywordScore(channel, q) + SubscriberScore(channel.subscriber_count)
    + LocationScore(channel, target_location) + ContactScore(channel)

\* ------------------------------------------------------------------------
\* The state before anything runs
\* ------------------------------------------------------------------------
\* the scripts' state before run / search_channels is called; the API key
\* is read from the environment when the script starts
RunIdle ==
    /\ pc = "idle"
    /\ video_ids = <<>>
    /\ i = 0
    /\ attempt = 0
    /\ scraped_videos = <<>>
    /\ failed_videos = <<>>
    /\ saved_videos = <<>>
    /\ saved_failed = <<>>
    /\ api_videos = EmptyDict
    /\ api_channels = EmptyDict
    /\ beforeEnrich = <<>>
    /\ attemptLog = <<>>
    /\ count_text = NoneText
    /\ parsed = -1

\* scrape_channel: the data dict as it is created
DefaultData ==
    [channel_id |-> None, about_text |-> NoneText, social_links |-> <<>>, websites |-> <<>>, emails |-> <<>>,
     detected_location |-> EmptyDict, location_confidence |-> 0, sample_videos |-> <<>>]

\* scrape_channel without an error: the page content becomes the data dict,
\* with the aggregated location
WithLocation(data, location_result) ==
    [data EXCEPT !.detected_location = location_result,
                 !.location_confidence = location_result.confidence]
Located(data, target) == WithLocation(data, _aggregate_location_data(data, target))
ScrapedData(about, titles, websites, emails, social, target) ==
    Located([DefaultData EXCEPT !.about_text = about, !.websites = websites,
                                !.emails = emails, !.social_links = social,
                                !.sample_videos = SampleVideos(titles, target)],
            target)

LocIdle ==
    /\ location = NoneText
    /\ loc_text = NoneText
    /\ loc_result = EmptyLoc
    /\ scraped_data = DefaultData

\* ChannelFinder before search_channels is called, with no history files
FinderIdle ==
    /\ query = NoneText
    /\ max_results = 50
    /\ channel_details = <<>>
    /\ enriched_channels = <<>>
    /\ scraped_channel_ids = {}
    /\ saved_channels = <<>>
    /\ search_found = <<>>
    /\ results = <<>>
    /\ page_token = None

\* ------------------------------------------------------------------------
\* ProxyManager
\* ------------------------------------------------------------------------
\* proxy_failures.get(proxy, 0) < blacklist_threshold
NotBlacklistedOffByOne(F, p) == F[p] <= blacklist_threshold
NotBlacklisted(F, p) == F[p] < blacklist_threshold

\* number of positions the while loop passes over before it finds a usable
\* proxy, scanning cyclically from position start; -1 when it finds none
ScanSkipsShort(P, F, start) ==
    LET n == Len(P)
        ks == {k \in 0..(n - 2) : NotBlacklisted(F, P[((start + k) % n) + 1])}
    IN  IF ks = {} THEN -1 ELSE SetMin(ks)
ScanSkips(P, F, start) ==
    LET n == Len(P)
        ks == {k \in 0..(n - 1) : NotBlacklisted(F, P[((start + k) % n) + 1])}
    IN  IF ks = {} THEN -1 ELSE SetMin(ks)

\* force_rotate or self.successful_uses >= self.rotation_interval
ShouldRotateLate(force_rotate, uses) == force_rotate \/ uses > rotation_interval
ShouldRotate(force_rotate, uses) == force_rotate \/ uses >= rotation_interval

\* the endpoint under the cursor
Current == IF proxies = <<>> THEN None ELSE proxies[current_index + 1]

ProxyInit ==
    /\ proxies \in Pools
    /\ current_index = 0
    /\ successful_uses = 0
    /\ proxy_failures = [e \in Endpoints |-> 0]
    /\ op = "init"
    /\ ret = None
    /\ forced = FALSE
    /\ failCalls = [e \in Endpoints |-> 0]
    /\ consec = 0
    /\ streakAtGet = 0
    /\ curAtGet = None

\* find_creators.py ProxyManager.get_next_proxy: the proxy it returns, where
\* it leaves the cursor and the success count
FinderPick(P, F, ci, uses, force_rotate) ==
    IF P = <<>> THEN [ret |-> None, idx |-> ci, uses |-> uses, rotate |-> FALSE]
    ELSE LET n == Len(P)
             rotate == ShouldRotate(force_rotate, uses)
             start == IF rotate THEN (ci + 1) % n ELSE ci
             k == ScanSkips(P, F, start)
         IN  [ret |-> IF k = -1 THEN None ELSE P[((start + k) % n) + 1],
              idx |-> IF k = -1 THEN start ELSE (start + k) % n,
              uses |-> IF rotate THEN 0 ELSE uses,
              rotate |-> rotate]

\* find_creators.py ProxyManager.get_next_proxy(force_rotate)
get_next_proxy(force_rotate) ==
    /\ UNCHANGED <<pc, runVars, locVars, finderVars>>
    /\ program = "find_creators"
    /\ op' = "get"
    /\ forced' = force_rotate
    /\ streakAtGet' = consec
    /\ curAtGet' = Current
    /\ UNCHANGED <<program, parseVars, proxies, proxy_failures, failCalls>>
    /\ LET pick == FinderPick(proxies, proxy_failures, current_index, successful_uses,
                              force_rotate)
       IN  /\ successful_uses' = pick.uses
           /\ current_index' = pick.idx
           /\ ret' = pick.ret
           /\ consec' = IF pick.rotate \/ current_index' # current_index
                        THEN 0 ELSE consec

\* find_creators.py ProxyManager.report_success
report_success ==
    /\ UNCHANGED <<pc, runVars, locVars, finderVars>>
    /\ program = "find_creators"
    /\ successful_uses < MaxSuccess
    /\ successful_uses' = successful_uses + 1
    /\ consec' = consec + 1
    /\ op' = "success"
    /\ UNCHANGED <<program, parseVars, proxies, current_index, proxy_failures, ret, forced, failCalls,
                   streakAtGet, curAtGet>>

\* find_creators.py ProxyManager.report_failure(proxy)
report_failure(proxy) ==
    /\ UNCHANGED <<pc, runVars, locVars, finderVars>>
    /\ program = "find_creators"
    /\ op' = "failure"
    /\ consec' = 0
    /\ UNCHANGED <<program, parseVars, proxies, current_index, ret, forced, streakAtGet, curAtGet>>
    /\ IF proxy # None
       THEN /\ proxy_failures[proxy] < MaxFailures
            /\ proxy_failures' = [proxy_failures EXCEPT ![proxy] = @ + 1]
            /\ failCalls' = [failCalls EXCEPT ![proxy] = @ + 1]
            /\ successful_uses' = 0
       ELSE UNCHANGED <<proxy_failures, failCalls, successful_uses>>

\* scraper.py ProxyManager.get_next_proxy: the proxy it returns and where it
\* leaves the cursor (one past the proxy it returns)
ScraperPickStays(P, F, ci) ==
    LET n == Len(P)
        k == ScanSkips(P, F, ci)
    IN  IF P = <<>> THEN [ret |-> None, idx |-> ci]
        ELSE IF k = -1 THEN [ret |-> None, idx |-> ci]
        ELSE [ret |-> P[((ci + k) % n) + 1], idx |-> (ci + k) % n]
ScraperPick(P, F, ci) ==
    LET n == Len(P)
        k == ScanSkips(P, F, ci)
    IN  IF P = <<>> THEN [ret |-> None, idx |-> ci]
        ELSE IF k = -1 THEN [ret |-> None, idx |-> ci]
        ELSE [ret |-> P[((ci + k) % n) + 1], idx |-> (ci + k + 1) % n]

\* scraper.py ProxyManager.get_next_proxy
scraper_get_next_proxy ==
    /\ UNCHANGED <<pc, runVars, locVars, finderVars>>
    /\ program = "scraper"
    /\ op' = "get"
    /\ forced' = FALSE
    /\ streakAtGet' = consec
    /\ curAtGet' = Current
    /\ UNCHANGED <<program, parseVars, proxies, proxy_failures, failCalls, successful_uses, consec>>
    /\ IF proxies = <<>>
       THEN /\ ret' = None
            /\ UNCHANGED current_index
       ELSE LET pick == ScraperPick(proxies, proxy_failures, current_index)
            IN  /\ current_index' = pick.idx
                /\ ret' = pick.ret

\* scraper.py ProxyManager.report_failure(proxy)
scraper_report_failure(proxy) ==
    /\ UNCHANGED <<pc, runVars, locVars, finderVars>>
    /\ program = "scraper"
    /\ op' = "failure"
    /\ UNCHANGED <<program, parseVars, proxies, current_index, ret, forced, successful_uses, consec,
                   streakAtGet, curAtGet>>
    /\ IF proxy # None
       THEN /\ proxy_failures[proxy] < MaxFailures
            /\ proxy_failures' = [proxy_failures EXCEPT ![proxy] = @ + 1]
            /\ failCalls' = [failCalls EXCEPT ![proxy] = @ + 1]
       ELSE UNCHANGED <<proxy_failures, failCalls>>

\* ------------------------------------------------------------------------
\* scraper.py YouTubeScraper.run
\* ------------------------------------------------------------------------
proxy_retries == 3

Ids == {"a", "b"}

\* the lists of ids run can collect from its input (an id can repeat)
IdLists == UNION {[1..n -> Ids] : n \in 0..MaxItems}

\* what the API can answer for a list of videos: any subset of their ids,
\* each with one of the given items
ApiAnswers(ids, items) ==
    UNION {[known -> items] : known \in SUBSET ids}

VideoIdsOf(videos) == {videos[n]["video_id"] : n \in 1..Len(videos)}

\* save_results: the videos file is rewritten when there are scraped videos,
\* failed.csv when there are failed ones
SaveVideosAppend(videos, old) == old \o videos
SaveVideos(videos, old) == IF videos # <<>> THEN videos ELSE old
SaveFailed(failed, old) == IF failed # <<>> THEN failed ELSE old

\* run, from its call to the start of the scrape loop
run_start ==
    /\ program = "scraper"
    /\ pc = "idle"
    /\ \E ids \in IdLists :
        /\ video_ids' = ids
        /\ pc' = IF ids = <<>> THEN "done" ELSE "loop"
        /\ i' = IF ids = <<>> THEN 0 ELSE 1
    /\ attempt' = 0
    /\ UNCHANGED <<program, parseVars, pmVars, histVars, scraped_videos, failed_videos, api_key,
                   saved_videos, saved_failed, api_videos, api_channels, beforeEnrich,
                   attemptLog, locVars,
                   finderVars>>

\* after item i: the next item, or the enrichment when it was the last one
NextPcStops(n) == "enrich"
NextPc(n) == IF n >= Len(video_ids) THEN "enrich" ELSE "loop"

\* "if result:" in scrape_video
StopsOnSuccessNever(ok) == FALSE
StopsOnSuccess(ok) == ok

\* "for attempt in range(self.args.proxy_retries)": was this the last one
LastAttemptOneMore(a) == a + 1 >= proxy_retries + 1
LastAttempt(a) == a + 1 >= proxy_retries

\* "All retries failed": the entry appended to failed_videos
FailedVideoOneAttempt(video_id) ==
    [video_id |-> video_id, reason |-> "skipped_due_to_captcha", attempts |-> 1]
FailedVideo(video_id) ==
    [video_id |-> video_id, reason |-> "skipped_due_to_captcha",
     attempts |-> proxy_retries]

\* what a successful extraction attempt produces in a run: a record with
\* every field but the comment count, or one with nothing but its id
RunVideo(id, fields) == IF fields = "most" THEN NoCommentVideo(id) ELSE BareVideo(id)

\* one pass of the retry loop of scrape_video for item i, with what run does
\* when scrape_video returns
scrape_video_attempt(ok, fields) ==
    /\ program = "scraper"
    /\ pc = "loop"
    /\ LET pick == ScraperPick(proxies, proxy_failures, current_index)
           proxy == pick.ret
       IN
        /\ current_index' = pick.idx
        /\ ret' = proxy
        /\ op' = IF ~ok /\ proxy # None THEN "failure" ELSE "get"
        /\ failCalls' = IF ~ok /\ proxy # None
                         THEN [failCalls EXCEPT ![proxy] = @ + 1] ELSE failCalls
        /\ attemptLog' = Append(attemptLog,
               [item |-> i, id |-> video_ids[i], proxy |-> proxy, ok |-> ok,
                seen |-> FALSE])    \* scraper.py keeps no set of seen ids
        /\ IF StopsOnSuccess(ok)
           THEN /\ scraped_videos' = Append(scraped_videos, RunVideo(video_ids[i], fields))
                /\ saved_videos' = SaveVideos(scraped_videos', saved_videos)
                /\ saved_failed' = SaveFailed(failed_videos, saved_failed)
                /\ i' = i + 1
                /\ attempt' = 0
                /\ pc' = NextPc(i)
                /\ UNCHANGED <<proxy_failures, failed_videos>>
           ELSE /\ proxy_failures' = IF proxy # None
                                     THEN [proxy_failures EXCEPT ![proxy] = @ + 1]
                                     ELSE proxy_failures
                /\ IF LastAttempt(attempt)
                   THEN /\ failed_videos' = Append(failed_videos, FailedVideo(video_ids[i]))
                        /\ i' = i + 1
                        /\ attempt' = 0
                        /\ pc' = NextPc(i)
                   ELSE /\ attempt' = attempt + 1
                        /\ UNCHANGED <<failed_videos, i, pc>>
                /\ UNCHANGED <<scraped_videos, saved_videos, saved_failed>>
    /\ UNCHANGED <<program, parseVars, proxies, successful_uses, forced, consec, streakAtGet, curAtGet,
                   video_ids, api_key, api_videos, api_channels, beforeEnrich, locVars, finderVars>>

\* run, after the loop: "Final API enrichment for all videos at once" and the
\* final save
run_enrich(answer, channels) ==
    /\ program = "scraper"
    /\ pc = "enrich"
    /\ pc' = "done"
    /\ IF scraped_videos # <<>>
       THEN /\ beforeEnrich' = scraped_videos
            /\ api_videos' = FetchedVideos(scraped_videos, api_key, answer)
            /\ api_channels' = FetchedChannels(api_key, channels)
            /\ scraped_videos' = enrich_with_api(scraped_videos, api_key, answer, channels)
            /\ saved_videos' = SaveVideos(scraped_videos', saved_videos)
            /\ saved_failed' = SaveFailed(failed_videos, saved_failed)
       ELSE UNCHANGED <<beforeEnrich, api_videos, api_channels, scraped_videos,
                        saved_videos, saved_failed>>
    /\ UNCHANGED <<program, parseVars, pmVars, histVars, video_ids, i, attempt, failed_videos,
                   api_key, attemptLog, locVars, finderVars>>

\* ------------------------------------------------------------------------
\* find_creators.py ChannelFinder.search_channels
\* ------------------------------------------------------------------------
ChannelIds == {"UC1", "UC2"}

\* niche, or niche and sub-niche joined by a blank
Queries == {
    <<"c", "o", "o", "k", "i", "n", "g">>,    \* cooking
    <<"c", "o", "o", "k", "i", "n", "g", " ", "t", "i", "p", "s">>     \* cooking tips
}

\* snippet.title of a channel
ChannelNames == {
    <<"C", "o", "o", "k", "i", "n", "g", " ", "T", "i", "p", "s", " ", "D", "a", "i", "l", "y">>,    \* Cooking Tips Daily
    <<"P", "a", "s", "t", "a", " ", "P", "r", "o">>     \* Pasta Pro
}

\* snippet.description of a channel
ChannelDescriptions == {
    NoneText,
    <<"t", "i", "p", "s", " ", "f", "o", "r", " ", "c", "o", "o", "k", "i", "n", "g", " ", "a", "t", " ", "h", "o", "m", "e">>     \* tips for cooking at home
}

\* what get_channel_details can return for one channel id
ApiChannelData(subscribers) ==
    {[snippet |-> [title |-> t, description |-> d],
      statistics |-> [subscriberCount |-> n]] :
        t \in ChannelNames, d \in ChannelDescriptions, n \in subscribers}

\* the channels get_channel_details answered with, in the order of the dict:
\* no channel id twice
FoundLists(ids, apis) ==
    {f \in UNION {[1..n -> [channel_id : ids, api_data : apis]] : n \in 0..MaxItems} :
        \A j, k \in 1..Len(f) : j # k => f[j].channel_id # f[k].channel_id}

\* "Filter by min subscribers" (0: the user gave none)
FilterMinSubscribers(found, min_subscribers) ==
    IF min_subscribers # 0
    THEN LET Enough(c) == c.api_data.statistics.subscriberCount >= min_subscribers
         IN  SelectSeq(found, Enough)
    ELSE found

\* "Remove already-scraped channels (duplicate detection)"
NotScrapedAny(cid, seen) == TRUE
NotScraped(cid, seen) == cid \notin seen
FilterScraped(found, seen) ==
    LET Fresh(c) == NotScraped(c.channel_id, seen)
    IN  SelectSeq(found, Fresh)

\* what the pages of one channel can give scrape_channel: the About page and
\* the videos page, and whether an exception ended the scrape after the
\* About page was read ("about") or before ("start")
Page(about, titles, websites, emails, social, error) ==
    [about_text |-> about, titles |-> titles, websites |-> websites, emails |-> emails,
     social_links |-> social, error |-> error]

\* scrape_channel: the data dict it returns
scrape_channel(channel_id, page, target_location) ==
    LET data == [DefaultData EXCEPT !.channel_id = channel_id]
        about_data == [data EXCEPT !.about_text = page.about_text,
                                   !.websites = page.websites,
                                   !.emails = page.emails,
                                   !.social_links = page.social_links]
    IN  IF page.error = "start" THEN data
        ELSE IF page.error = "about" THEN about_data
        ELSE [ScrapedData(page.about_text, page.titles, page.websites, page.emails,
                          page.social_links, target_location)
                 EXCEPT !.channel_id = channel_id]

\* enriched_channels.sort(key=confidence_score, reverse=True): stable, the
\* highest score first
KeepsBeforeStrict(a, b) == a.confidence_score > b.confidence_score
KeepsBefore(a, b) == a.confidence_score >= b.confidence_score
RECURSIVE InsertByScore(_, _)
InsertByScore(sorted, ch) ==
    IF sorted = <<>> THEN <<ch>>
    ELSE IF KeepsBefore(Head(sorted), ch)
         THEN <<Head(sorted)>> \o InsertByScore(Tail(sorted), ch)
         ELSE <<ch>> \o sorted
RECURSIVE SortByScore(_)
SortByScore(channels) ==
    IF channels = <<>> THEN <<>>
    ELSE InsertByScore(SortByScore(SubSeq(channels, 1, Len(channels) - 1)),
                       channels[Len(channels)])

\* channels[:max_results]
FirstN(channels, n) == SubSeq(channels, 1, IF n < Len(channels) THEN n ELSE Len(channels))

\* _save_incremental / _save_final: nothing is written for an empty list
SaveChannels(channels, old) == IF channels # <<>> THEN channels ELSE old

\* main: "if not api_key"
MissingKeyNever(key) == FALSE
MissingKey(key) == key = ""

\* main without YOUTUBE_API_KEY: it returns before the finder is made
main ==
    /\ program = "find_creators"
    /\ pc = "idle"
    /\ MissingKey(api_key)
    /\ pc' = "done"
    /\ UNCHANGED <<program, parseVars, pmVars, histVars, video_ids, i, attempt, scraped_videos,
                   failed_videos, saved_videos, saved_failed, api_key, api_videos,
                   api_channels, beforeEnrich, attemptLog, locVars, finderVars>>

\* search_channels, from its call by main to the start of the scrape loop
search_start(q, found, min_subscribers, limit) ==
    /\ program = "find_creators"
    /\ pc = "idle"
    /\ ~MissingKey(api_key)
    /\ LET details == FilterScraped(FilterMinSubscribers(found, min_subscribers),
                                    scraped_channel_ids)
       IN  /\ channel_details' = details
           /\ pc' = IF details = <<>> THEN "done" ELSE "loop"
           /\ i' = IF details = <<>> THEN 0 ELSE 1
    /\ query' = q
    /\ max_results' = limit
    /\ enriched_channels' = <<>>
    /\ search_found' = [k \in 1..Len(found) |-> found[k].channel_id]
    /\ UNCHANGED <<program, parseVars, pmVars, histVars, video_ids, attempt, scraped_videos,
                   failed_videos, saved_videos, saved_failed, api_key, api_videos,
                   api_channels,
                   beforeEnrich, attemptLog, locVars, scraped_channel_ids, saved_channels,
                   results, page_token>>

\* one pass of "for i, (channel_id, api_data) in enumerate(channel_details.items(), 1)"
\* and, after the last channel, the ranking and the final save
process_channel(page) ==
    /\ program = "find_creators"
    /\ pc = "loop"
    /\ LET channel_id == channel_details[i].channel_id
           api_data == channel_details[i].api_data
           pick == FinderPick(proxies, proxy_failures, current_index, successful_uses, FALSE)
           merged == _merge_channel_data(api_data, scraped_data')
           scored == [f \in (DOMAIN merged) \cup {"confidence_score"} |->
                        IF f = "confidence_score"
                        THEN _calculate_confidence(merged, query, location)
                        ELSE merged[f]]
           enriched == Append(enriched_channels, scored)
           last == i >= Len(channel_details)
           ranked == SortByScore(enriched)
       IN  /\ scraped_data' = scrape_channel(channel_id, page, location)
           /\ current_index' = pick.idx
           /\ successful_uses' = pick.uses
           /\ op' = "get"
           /\ ret' = pick.ret
           /\ forced' = FALSE
           /\ streakAtGet' = consec
           /\ curAtGet' = Current
           /\ consec' = IF pick.rotate \/ pick.idx # current_index THEN 0 ELSE consec
           /\ attemptLog' = Append(attemptLog,
                  [item |-> i, id |-> channel_id, proxy |-> pick.ret,
                   ok |-> page.error = "no", seen |-> channel_id \in scraped_channel_ids,
                   saved |-> [n \in 1..Len(enriched) |-> enriched[n].channel_id]])    \* what _save_incremental wrote
           /\ scraped_channel_ids' = scraped_channel_ids \cup {channel_id}
           /\ enriched_channels' = IF last THEN ranked ELSE enriched
           /\ saved_channels' = IF last
                                THEN SaveChannels(FirstN(ranked, max_results), enriched)
                                ELSE enriched
           /\ i' = i + 1
           /\ pc' = IF last THEN "done" ELSE "loop"
    /\ UNCHANGED <<program, parseVars, proxies, proxy_failures, failCalls, video_ids, attempt,
                   scraped_videos, failed_videos, saved_videos, saved_failed, api_key,
                   api_videos, api_channels, beforeEnrich, location, loc_text,
                   loc_result, query,
                   max_results, channel_details, search_found, results, page_token>>

\* ------------------------------------------------------------------------
\* The enrichment on its own: run has scraped every video at the first
\* attempt, without a proxy, and is about to call enrich_with_api
\* ------------------------------------------------------------------------
ScrapedLists ==
    {<<v>> : v \in ScrapedVideos("a")}
        \cup {<<v, w>> : v \in ScrapedVideos("a"), w \in {FullVideo("b"), BareVideo("b")}}

InitFusion ==
    /\ program = "scraper"
    /\ ProxyInit
    /\ proxies = <<>>
    /\ LocIdle
    /\ FinderIdle
    /\ pc = "enrich"
    /\ scraped_videos \in ScrapedLists
    /\ video_ids = [n \in 1..Len(scraped_videos) |-> scraped_videos[n]["video_id"]]
    /\ i = Len(video_ids) + 1
    /\ attempt = 0
    /\ failed_videos = <<>>
    /\ saved_videos = scraped_videos
    /\ saved_failed = <<>>
    /\ api_key \in {"", "KEY"}
    /\ api_videos = EmptyDict
    /\ api_channels = EmptyDict
    /\ beforeEnrich = <<>>
    /\ count_text = NoneText
    /\ parsed = -1
    /\ attemptLog = [n \in 1..Len(video_ids) |->
                        [item |-> n, id |-> video_ids[n], proxy |-> None, ok |-> TRUE,
                         seen |-> FALSE]]

NextFusion ==
    \E answer \in ApiAnswers(VideoIdsOf(scraped_videos), ApiItems), channels \in ApiChannels :
        run_enrich(answer, channels)

SpecFusion == InitFusion /\ [][NextFusion]_vars

\* ------------------------------------------------------------------------
\* The enrichment applied a second time to the list it has enriched, with
\* the API answering as it did the first time
\* ------------------------------------------------------------------------
enrich_again ==
    /\ program = "scraper"
    /\ pc = "done"
    /\ pc' = "again"
    /\ beforeEnrich' = scraped_videos
    /\ scraped_videos' = enrich_with_api(scraped_videos, api_key, api_videos, api_channels)
    /\ UNCHANGED <<program, parseVars, pmVars, histVars, video_ids, i, attempt, failed_videos,
                   saved_videos, saved_failed, api_key, api_videos, api_channels,
                   attemptLog, locVars, finderVars>>

NextTwice ==
    \/ NextFusion
    \/ enrich_again

SpecTwice == InitFusion /\ [][NextTwice]_vars

\* ------------------------------------------------------------------------
\* Location inference on its own: the texts, titles, websites and target
\* locations tried
\* ------------------------------------------------------------------------
\* about texts (None: the About page gave no text)
AboutTexts == {
    NoneText,
    <<"T", "o", "r", "o", "n", "t", "o">>,    \* Toronto
    <<"T", "o", "r", "o", "n", "t", "o", ",", " ", "C", "a", "n", "a", "d", "a">>,    \* Toronto, Canada
    <<"M", "i", "a", "m", "i">>,    \* Miami
    <<"I", " ", "m", "a", "k", "e", " ", "m", "u", "s", "i", "c">>,    \* I make music
    <<"L", "o", "n", "d", "o", "n", " ", "U", "K", " ", "a", "n", "d", " ", "U", "S", "A">>,    \* London UK and USA
    <<"A", "u", "s", "t", "r", "a", "l", "i", "a">>,    \* Australia
    <<"c", "o", "o", "k", "i", "n", "g", " ", "t", "i", "p", "s">>     \* cooking tips
}

\* sample video titles
TitleTexts == {
    <<"C", "a", "n", "a", "d", "a">>,    \* Canada
    <<"T", "o", "r", "o", "n", "t", "o", " ", "v", "l", "o", "g">>,    \* Toronto vlog
    <<"b", "e", "s", "t", " ", "p", "a", "s", "t", "a">>     \* best pasta
}

\* website links of the About page
Websites == {
    <<"h", "t", "t", "p", ":", "/", "/", "x", ".", "c", "o", "m">>,    \* http://x.com
    <<"h", "t", "t", "p", ":", "/", "/", "x", ".", "c", "o", ".", "u", "k">>,    \* http://x.co.uk
    <<"h", "t", "t", "p", ":", "/", "/", "s", "h", "o", "p", ".", "c", "a", "/", "a", "b", "o", "u", "t">>     \* http://shop.ca/about
}

\* target locations (None: the user gave none)
Targets == {
    NoneText,
    <<"U", "S">>,    \* US
    <<"C", "a", "n", "a", "d", "a">>,    \* Canada
    <<"t", "o", "r", "o", "n", "t", "o">>,    \* toronto
    <<"M", "i", "a", "m", "i">>     \* Miami
}

TitleLists == UNION {[1..n -> TitleTexts] : n \in 0..MaxTitles}
SiteLists == {<<>>} \cup {<<w>> : w \in Websites}
                 \cup {<<w1, w2>> : w1 \in Websites, w2 \in Websites}

InitLocation ==
    /\ program = "find_creators"
    /\ ProxyInit
    /\ proxies = <<>>
    /\ RunIdle
    /\ api_key = "KEY"
    /\ FinderIdle
    /\ location \in Targets
    /\ loc_text = NoneText
    /\ loc_result = EmptyLoc
    /\ scraped_data = DefaultData

\* one call of _extract_location_from_text
infer_text(text) ==
    /\ pc = "idle"
    /\ pc' = "inferred"
    /\ loc_text' = text
    /\ loc_result' = _extract_location_from_text(text, location)
    /\ UNCHANGED <<program, parseVars, pmVars, histVars, runVars, location, scraped_data, finderVars>>

\* the location part of one scrape_channel call
scrape_locations(about, titles, websites) ==
    /\ pc = "idle"
    /\ pc' = "aggregated"
    /\ scraped_data' = ScrapedData(about, titles, websites, <<>>, <<>>, location)
    /\ UNCHANGED <<program, parseVars, pmVars, histVars, runVars, location, loc_text, loc_result,
                   finderVars>>

NextLocation ==
    \/ \E text \in (AboutTexts \cup TitleTexts) \ {NoneText} : infer_text(text)
    \/ \E about \in AboutTexts, titles \in TitleLists, websites \in SiteLists :
          scrape_locations(about, titles, websites)

SpecLocation == InitLocation /\ [][NextLocation]_vars

\* ------------------------------------------------------------------------
\* A whole run of either script
\* ------------------------------------------------------------------------
RunPools == {<<>>, <<"p1">>, <<"p1", "p2">>}

\* the target locations of a run: none, or Canada
RunTargets == {NoneText, <<"C", "a", "n", "a", "d", "a">>}

RunApiData ==
    { [snippet |-> [title |-> <<"C", "o", "o", "k", "i", "n", "g", " ", "T", "i", "p", "s", " ", "D", "a", "i", "l", "y">>,
                    description |-> NoneText],
       statistics |-> [subscriberCount |-> 1000]],
      [snippet |-> [title |-> <<"P", "a", "s", "t", "a", " ", "P", "r", "o">>,
                    description |-> <<"t", "i", "p", "s", " ", "f", "o", "r", " ", "c", "o", "o", "k", "i", "n", "g", " ", "a", "t", " ", "h", "o", "m", "e">>],
       statistics |-> [subscriberCount |-> 1000000]] }

\* a full page, an empty page, an error before the About page is read and an
\* error after it
RunPages ==
    { Page(<<"T", "o", "r", "o", "n", "t", "o", ",", " ", "C", "a", "n", "a", "d", "a">>,
           <<<<"T", "o", "r", "o", "n", "t", "o", " ", "v", "l", "o", "g">>>>,
           <<>>, <<"a@x.com">>, <<"https://twitter.com/x">>, "no"),
      Page(NoneText, <<>>, <<>>, <<>>, <<>>, "no"),
      Page(NoneText, <<>>, <<>>, <<>>, <<>>, "start"),
      Page(<<"T", "o", "r", "o", "n", "t", "o", ",", " ", "C", "a", "n", "a", "d", "a">>,
           <<>>, <<>>, <<"a@x.com">>, <<>>, "about") }

\* after construction: the proxies are loaded and, in find_creators.py,
\* _load_scraped_history has read the channel ids of earlier result files
InitRun ==
    /\ program \in Programs
    /\ ProxyInit
    /\ proxies \in RunPools
    /\ RunIdle
    /\ api_key \in {"", "KEY"}
    /\ location \in (IF program = "find_creators" THEN RunTargets ELSE {NoneText})
    /\ loc_text = NoneText
    /\ loc_result = EmptyLoc
    /\ scraped_data = DefaultData
    /\ query = NoneText
    /\ max_results = 50
    /\ channel_details = <<>>
    /\ enriched_channels = <<>>
    /\ scraped_channel_ids \in (IF program = "find_creators" THEN SUBSET ChannelIds ELSE {{}})
    /\ saved_channels = <<>>
    /\ search_found = <<>>
    /\ results = <<>>
    /\ page_token = None

NextRun ==
    \/ run_start
    \/ \E fields \in {"most", "none"} : scrape_video_attempt(TRUE, fields)
    \/ scrape_video_attempt(FALSE, "none")
    \/ \E answer \in ApiAnswers(VideoIdsOf(scraped_videos), RunApiItems),
          channels \in ApiChannels :
          run_enrich(answer, channels)
    \/ \E q \in Queries, found \in FoundLists(ChannelIds, RunApiData),
          min_subscribers \in {0, 10000}, limit \in {1, 50} :
          search_start(q, found, min_subscribers, limit)
    \/ \E page \in RunPages : process_channel(page)
    \/ main

SpecRun == InitRun /\ [][NextRun]_vars

\* ------------------------------------------------------------------------
\* The scoring of one channel, over many pages and API answers
\* ------------------------------------------------------------------------
ScoreSubscribers == {0, 1000, 1000000, 10000000}

ScorePages ==
    {Page(about, titles, <<>>, c[1], c[2], "no") :
        about \in AboutTexts,
        titles \in {<<>>, <<<<"T", "o", "r", "o", "n", "t", "o", " ", "v", "l", "o", "g">>>>},
        c \in {<< <<>>, <<>> >>, << <<"a@x.com">>, <<"https://twitter.com/x">> >>}}
    \cup {Page(NoneText, <<>>, <<>>, <<>>, <<>>, "start")}

\* the queries scored: those of a run, and one of which a title holds one word
\* of two
ScoreQueries ==
    Queries \cup {<<"c", "o", "o", "k", "i", "n", "g", " ", "s", "h", "o", "w">>}    \* cooking show

InitScore ==
    /\ program = "find_creators"
    /\ ProxyInit
    /\ proxies = <<>>
    /\ RunIdle
    /\ api_key = "KEY"
    /\ FinderIdle
    /\ location \in Targets
    /\ loc_text = NoneText
    /\ loc_result = EmptyLoc
    /\ scraped_data = DefaultData

NextScore ==
    \/ \E q \in ScoreQueries, api_data \in ApiChannelData(ScoreSubscribers) :
          search_start(q, <<[channel_id |-> "UC1", api_data |-> api_data]>>, 0, 50)
    \/ \E page \in ScorePages : process_channel(page)

SpecScore == InitScore /\ [][NextScore]_vars

\* ------------------------------------------------------------------------
\* A search of the channel finder over five channels, with two proxies
\* ------------------------------------------------------------------------
\* what get_channel_details answered with
RotateFound ==
    [k \in 1..(rotation_interval + 1) |->
        [channel_id |-> <<"UC1", "UC2", "UC3", "UC4", "UC5">>[k],
         api_data |-> [snippet |-> [title |-> <<"P", "a", "s", "t", "a", " ", "P", "r", "o">>,
                                    description |-> NoneText],
                       statistics |-> [subscriberCount |-> 1000]]]]

InitRotate ==
    /\ program = "find_creators"
    /\ ProxyInit
    /\ proxies = <<"p1", "p2">>
    /\ RunIdle
    /\ api_key = "KEY"
    /\ FinderIdle
    /\ location \in RunTargets
    /\ loc_text = NoneText
    /\ loc_result = EmptyLoc
    /\ scraped_data = DefaultData

NextRotate ==
    \/ \E q \in Queries : search_start(q, RotateFound, 0, 50)
    \/ \E page \in RunPages : process_channel(page)

SpecRotate == InitRotate /\ [][NextRotate]_vars

\* ------------------------------------------------------------------------
\* find_creators.py YouTubeAPI.search_channels: the paginated search
\* ------------------------------------------------------------------------
\* the items of one page of the API's answer
Pages == UNION {[1..n -> {"v1", "v2"}] : n \in 0..2}

\* ChannelFinder.search_channels calls it with max_results * 2
api_search_start(limit) ==
    /\ program = "find_creators"
    /\ pc = "idle"
    /\ ~MissingKey(api_key)
    /\ pc' = "searching"
    /\ max_results' = limit
    /\ results' = <<>>
    /\ page_token' = None
    /\ UNCHANGED <<program, parseVars, pmVars, histVars, runVars, locVars, query, channel_details,
                   enriched_channels, scraped_channel_ids, saved_channels, search_found>>

\* "if not page_token: break", and "while len(results) < max_results"
LoopEnds(fetched, items, token, wanted) == token = None \/ Len(fetched) >= wanted

\* one pass of the while loop in which the request is answered, and the
\* return when the loop ends
search_page(items, token) ==
    /\ pc = "searching"
    /\ Len(results) < max_results * 2
    /\ page_token' = token
    /\ IF LoopEnds(results \o items, items, token, max_results * 2)
       THEN /\ pc' = "searched"
            /\ results' = FirstN(results \o items, max_results * 2)
       ELSE /\ pc' = "searching"
            /\ results' = results \o items
    /\ UNCHANGED <<program, parseVars, pmVars, histVars, runVars, locVars, query, max_results,
                   channel_details, enriched_channels, scraped_channel_ids,
                   saved_channels, search_found>>

\* one pass of the while loop in which the request raises an exception
search_fails ==
    /\ pc = "searching"
    /\ Len(results) < max_results * 2
    /\ pc' = "searched"
    /\ UNCHANGED <<program, parseVars, pmVars, histVars, runVars, locVars, finderVars>>

InitSearch ==
    /\ program = "find_creators"
    /\ ProxyInit
    /\ proxies = <<>>
    /\ RunIdle
    /\ api_key = "KEY"
    /\ LocIdle
    /\ FinderIdle

NextSearch ==
    \/ \E limit \in 1..MaxItems : api_search_start(limit)
    \/ \E items \in Pages, token \in {None, "T1", "T2"} : search_page(items, token)
    \/ search_fails

SpecSearch == InitSearch /\ [][NextSearch]_vars /\ WF_vars(NextSearch)

\* ------------------------------------------------------------------------
\* scraper.py YouTubeScraper._parse_count
\* ------------------------------------------------------------------------
DigitChars == <<"0", "1", "2", "3", "4", "5", "6", "7", "8", "9">>
IsDigit(c) == \E n \in 1..10 : DigitChars[n] = c
DigitVal(c) == (CHOOSE n \in 1..10 : DigitChars[n] = c) - 1
RECURSIVE DigitsValue(_)
\* the number a string of digits writes (0 for the empty string)
DigitsValue(s) ==
    IF s = <<>> THEN 0
    ELSE 10 * DigitsValue(SubSeq(s, 1, Len(s) - 1)) + DigitVal(s[Len(s)])
RECURSIVE Pow10(_)
Pow10(n) == IF n = 0 THEN 1 ELSE 10 * Pow10(n - 1)
\* s.replace(ch, '')
RemoveChar(s, ch) == LET Other(c) == c # ch IN SelectSeq(s, Other)
HasChar(s, ch) == \E k \in 1..Len(s) : s[k] = ch

\* _parse_count(text): the count, or -1 for None. float(num) takes digits
\* with at most one dot and at least one digit, int(text) digits only; the
\* product is exact for the numbers tried
_parse_count(text) ==
    LET IsCountChar(c) == IsDigit(c) \/ c \in {".", ",", "K", "M", "B"}
        kept == SelectSeq(Upper(text), IsCountChar)
        IsFloat(num) ==
            /\ \A k \in 1..Len(num) : IsDigit(num[k]) \/ num[k] = "."
            /\ \E k \in 1..Len(num) : IsDigit(num[k])
            /\ Cardinality({k \in 1..Len(num) : num[k] = "."}) <= 1
        FracLen(num) ==
            IF HasChar(num, ".")
            THEN Len(num) - (CHOOSE k \in 1..Len(num) : num[k] = ".")
            ELSE 0
        FloatTimes(num, multiplier) ==
            IF IsFloat(num)
            THEN IF FracLen(num) <= 3
                 THEN DigitsValue(RemoveChar(num, ".")) * (multiplier \div Pow10(FracLen(num)))
                 ELSE (DigitsValue(RemoveChar(num, ".")) * multiplier) \div Pow10(FracLen(num))
            ELSE -1
        WithSuffix(suffix, multiplier) ==
            FloatTimes(RemoveChar(RemoveChar(kept, suffix), ","), multiplier)
        plain == RemoveChar(kept, ",")
    IN  IF ~TruthyText(text) THEN -1
        ELSE IF HasChar(kept, "K") THEN WithSuffix("K", 1000)
        ELSE IF HasChar(kept, "M") THEN WithSuffix("M", 1000000)
        ELSE IF HasChar(kept, "B") THEN WithSuffix("B", 1000000000)
        ELSE IF plain # <<>> /\ \A k \in 1..Len(plain) : IsDigit(plain[k])
             THEN DigitsValue(plain)
             ELSE -1

\* the count texts of a watch page: a number, and the word after it
CountNumbers == {
    <<"1", ",", "2", "3", "4">>,    \* 1,234
    <<"1", "2", "3", "4">>,    \* 1234
    <<"1", "5">>,    \* 15
    <<"2", ",", "0", "0", "0">>,    \* 2,000
    <<"7">>,    \* 7
    <<"1", ".", "2", "M">>,    \* 1.2M
    <<"1", ".", "2", "K">>,    \* 1.2K
    <<"1", ".", "2", "B">>,    \* 1.2B
    <<"2", ".", "5", "K">>,    \* 2.5K
    <<"3", "M">>,    \* 3M
    <<"1", "2", "K">>,    \* 12K
    <<"1", ".", "5", "M">>,    \* 1.5M
    <<"9", "8", "7">>,    \* 987
    <<"0">>    \* 0
}
CountWords == {
    <<>>,    \* ''
    <<" ", "l", "i", "k", "e", "s">>,    \* ' likes'
    <<" ", "C", "o", "m", "m", "e", "n", "t", "s">>,    \* ' Comments'
    <<" ", "v", "i", "e", "w", "s">>,    \* ' views'
    <<" ", "c", "o", "m", "m", "e", "n", "t", "s">>,    \* ' comments'
    <<" ", "w", "a", "t", "c", "h", "i", "n", "g">>,    \* ' watching'
    <<" ", "d", "i", "s", "l", "i", "k", "e", "s">>,    \* ' dislikes'
    <<" ", "L", "i", "k", "e", "s">>    \* ' Likes'
}
CountTexts == {number \o word : number \in CountNumbers, word \in CountWords}

\* one call of _parse_count
parse_count(text) ==
    /\ program = "scraper"
    /\ pc = "idle"
    /\ pc' = "parsed"
    /\ count_text' = text
    /\ parsed' = _parse_count(text)
    /\ UNCHANGED <<program, pmVars, histVars, runVars, locVars, finderVars>>

NextParse == \E text \in CountTexts : parse_count(text)

SpecParse == InitRun /\ [][NextParse]_vars

\* any interleaving of the ProxyManager's calls, on either script's manager
InitProxy ==
    /\ program \in Programs
    /\ ProxyInit
    /\ RunIdle
    /\ api_key \in (IF program = "scraper" THEN {"", "KEY"} ELSE {"KEY"})
    /\ LocIdle
    /\ FinderIdle

NextProxy ==
    \/ \E f \in BOOLEAN : get_next_proxy(f)
    \/ report_success
    \/ \E p \in Endpoints \cup {None} : report_failure(p)
    \/ scraper_get_next_proxy
    \/ \E p \in Endpoints \cup {None} : scraper_report_failure(p)

SpecProxy == InitProxy /\ [][NextProxy]_vars

\* ------------------------------------------------------------------------
\* C1: once report_failure has been called blacklist_threshold times for an
\* endpoint, no later get_next_proxy call returns that endpoint (both
\* scripts' managers, forced or unforced).
\* ------------------------------------------------------------------------
C1_BlacklistedNeverReturned ==
    (op = "get" /\ ret # None) => failCalls[ret] < blacklist_threshold

C1_Witness ==
    /\ op = "get"
    /\ ret # None
    /\ \E e \in Range(proxies) : failCalls[e] >= blacklist_threshold

CountriesByAlias(text) ==
    {n \in 1..Len(Locations) : AnyWordIn(LocationsLower[n].keywords_lower, Lower(text))}
CountriesByCity(text) ==
    {n \in 1..Len(Locations) : AnyWordIn(LocationsLower[n].cities_lower, Lower(text))}
SignalPoints(text) ==
    10 * Cardinality(CountriesByAlias(text)) + 15 * Cardinality(CountriesByCity(text))

\* C8 (as stated): the confidence returned by the single-text location
\* inference is in [0, 20] for every text and every target hint.
C8_SingleTextCapped ==
    pc = "inferred" => (loc_result.confidence >= 0 /\ loc_result.confidence <= 20)

\* C8 (amended): the confidence of the single-text inference is not capped:
\* it is 10 for every table country with an alias in the text plus 15 for
\* every table country with a city in the text, plus 20 for each hint match
\* (hint equal to a matched city, hint equal to the resulting country), and
\* nothing more when no hint is given.
C8_SingleTextSumOfSignals ==
    pc = "inferred" =>
        /\ loc_result.confidence >= 0
        /\ loc_result.confidence - SignalPoints(loc_text) \in {0, 20, 40}
        /\ location = NoneText => loc_result.confidence = SignalPoints(loc_text)

C8_Witness ==
    /\ pc = "inferred"
    /\ Cardinality(CountriesByAlias(loc_text)) >= 2
    /\ loc_result.confidence > 20

\* ------------------------------------------------------------------------
\* C9 (as stated): the aggregated estimate always has an integer confidence
\* with 0 <= confidence <= 20 (confidence is kept in hundredths).
\* ------------------------------------------------------------------------
C9_AggregateIntegerInRange ==
    pc = "aggregated" =>
        /\ scraped_data.detected_location.confidence % Hundredths = 0
        /\ scraped_data.detected_location.confidence >= 0
        /\ scraped_data.detected_location.confidence <= 20 * Hundredths

\* C9 (amended): the aggregated estimate always has 0 <= confidence <= 20,
\* the confidence being a multiple of 2.5 that need not be an integer.
C9_AggregateInRange ==
    pc = "aggregated" =>
        /\ scraped_data.detected_location.confidence % 250 = 0
        /\ scraped_data.detected_location.confidence >= 0
        /\ scraped_data.detected_location.confidence <= 20 * Hundredths

\* the cap acted: the about text alone gives 20 or more and a title adds to it
C9_Witness ==
    /\ pc = "aggregated"
    /\ scraped_data.detected_location.confidence = 20 * Hundredths
    /\ scraped_data.detected_location.sources = <<"about_page", "video_titles">>
    /\ _extract_location_from_text(scraped_data.about_text, location).confidence >= 20

\* ------------------------------------------------------------------------
\* C5: enrich_with_api never overwrites a field the scrape supplied with a
\* truthy value: after the enrichment each of view_count, like_count,
\* comment_count, title, description, tags and channel_id that was truthy
\* before still holds the scraped value.
\* ------------------------------------------------------------------------
FusedFields == NumFields \cup TextFields \cup {"tags"}

C5_ScrapedNeverOverwritten ==
    (pc = "done" /\ beforeEnrich # <<>>) =>
        \A n \in 1..Len(beforeEnrich) : \A f \in FusedFields :
            Truthy(beforeEnrich[n], f) =>
                /\ Has(scraped_videos[n], f)
                /\ scraped_videos[n][f] = beforeEnrich[n][f]

\* the API answered for a video that had scraped some fields and not others
C5_Witness ==
    /\ pc = "done"
    /\ beforeEnrich # <<>>
    /\ \E n \in 1..Len(beforeEnrich) :
        /\ Has(api_videos, beforeEnrich[n]["video_id"])
        /\ Truthy(beforeEnrich[n], "view_count")
        /\ Truthy(beforeEnrich[n], "tags")
        /\ ~Truthy(beforeEnrich[n], "title")
        /\ Has(api_videos[beforeEnrich[n]["video_id"]].statistics, "viewCount")
        /\ Has(api_videos[beforeEnrich[n]["video_id"]].snippet, "tags")
        /\ scraped_videos[n]["title"] = "AT"

\* ------------------------------------------------------------------------
\* C6: for each of view_count, like_count and comment_count of a fused
\* record: a scraped non-zero value is kept and tagged 'scraped'; otherwise,
\* when the API returned a record for the id, the value is the API's value
\* (0 when the API's statistics lack it) and the tag is 'api'.
\* ------------------------------------------------------------------------
StatKey(f) ==
    CASE f = "view_count" -> "viewCount"
      [] f = "like_count" -> "likeCount"
      [] f = "comment_count" -> "commentCount"

C6_StatValueAndTag ==
    (pc = "done" /\ beforeEnrich # <<>>) =>
        \A n \in 1..Len(beforeEnrich) : \A f \in NumFields :
            LET before == beforeEnrich[n]
                after == scraped_videos[n]
                tag == "field_source_" \o f
                id == before["video_id"]
            IN  IF Truthy(before, f)
                THEN /\ after[f] = before[f]
                     /\ Has(after, tag)
                     /\ after[tag] = "scraped"
                ELSE Has(api_videos, id) =>
                     /\ Has(after, f)
                     /\ after[f] = StatInt(api_videos[id].statistics, StatKey(f))
                     /\ Has(after, tag)
                     /\ after[tag] = "api"

\* one record with a scraped view count and a like count taken from the API
C6_Witness ==
    /\ pc = "done"
    /\ beforeEnrich # <<>>
    /\ \E n \in 1..Len(beforeEnrich) :
        /\ Has(api_videos, beforeEnrich[n]["video_id"])
        /\ Truthy(beforeEnrich[n], "view_count")
        /\ ~Truthy(beforeEnrich[n], "like_count")
        /\ scraped_videos[n]["field_source_view_count"] = "scraped"
        /\ scraped_videos[n]["like_count"] = 90
        /\ scraped_videos[n]["field_source_like_count"] = "api"

\* ------------------------------------------------------------------------
\* C2: for every item the retry loop of scrape_video makes at most
\* proxy_retries extraction attempts, one after another (the attempts of an
\* item are not interleaved with those of another), and none after the first
\* attempt of the item that succeeds.
\* ------------------------------------------------------------------------
ItemAttempts(n) == {k \in 1..Len(attemptLog) : attemptLog[k].item = n}

C2_RetryLoopBounded ==
    program = "scraper" =>
        /\ \A n \in 1..Len(video_ids) : Cardinality(ItemAttempts(n)) <= proxy_retries
        /\ \A j, k \in 1..Len(attemptLog) :
              j < k => /\ attemptLog[j].item <= attemptLog[k].item
                       /\ attemptLog[j].item = attemptLog[k].item => ~attemptLog[j].ok

\* an item that took all its attempts and succeeded at the last one, followed
\* by an attempt for the next item
C2_Witness ==
    /\ program = "scraper"
    /\ \E n \in 1..Len(video_ids) :
        /\ Cardinality(ItemAttempts(n)) = proxy_retries
        /\ \E k \in ItemAttempts(n) : attemptLog[k].ok
        /\ ItemAttempts(n + 1) # {}

\* ------------------------------------------------------------------------
\* C3 as claimed: an extraction failure never aborts the run, every item of
\* the input is processed, and an item whose extraction failed is not in the
\* fused, scored or persisted records (both scripts).
\* ------------------------------------------------------------------------
IdsOf(records, key) == [k \in 1..Len(records) |-> records[k][key]]
OkAttempt(e) == e.ok
\* the ids of the successful attempts, in order
SucceededIds == IdsOf(SelectSeq(attemptLog, OkAttempt), "id")
FailedChannelIds == {attemptLog[k].id : k \in {j \in 1..Len(attemptLog) : ~attemptLog[j].ok}}
ItemCount == IF program = "scraper" THEN Len(video_ids) ELSE Len(channel_details)
AllItemsProcessed == {attemptLog[k].item : k \in 1..Len(attemptLog)} = 1..ItemCount

\* scraper.py: the scraped, enriched and saved videos are those of the
\* successful attempts
OnlySucceededVideos ==
    /\ IdsOf(scraped_videos, "video_id") = SucceededIds
    /\ saved_videos = scraped_videos
    /\ pc = "done" => \/ beforeEnrich = <<>>
                      \/ IdsOf(beforeEnrich, "video_id") = SucceededIds

C7_ScoreInRange ==
    \A k \in 1..Len(enriched_channels) :
        /\ enriched_channels[k].confidence_score >= 0
        /\ enriched_channels[k].confidence_score <= 100 * Hundredths
\* ------------------------------------------------------------------------
\* C11: get_next_proxy returns None when the pool is empty and when every
\* endpoint of the pool has reached blacklist_threshold failures; in every
\* other state it returns an endpoint of the pool whose failure count is
\* below blacklist_threshold (both scripts' managers).
\* ------------------------------------------------------------------------
AllBlacklisted ==
    \A k \in 1..Len(proxies) : proxy_failures[proxies[k]] >= blacklist_threshold

C11_ReturnsUsableOrNone ==
    op = "get" =>
        IF proxies = <<>> \/ AllBlacklisted
        THEN ret = None
        ELSE /\ ret \in Range(proxies)
             /\ proxy_failures[ret] < blacklist_threshold

\* a call on a pool of two or more endpoints, all of them blacklisted
C11_Witness ==
    /\ op = "get"
    /\ Len(proxies) >= 2
    /\ AllBlacklisted
    /\ ret = None
\* ------------------------------------------------------------------------
\* C12 as claimed: an item of scraper.py whose first k attempts fail and
\* whose attempt k+1 succeeds, each attempt with a proxy endpoint, yields a
\* record and no failure record, and the ProxyManager has recorded exactly
\* the failures of the failed attempts, each against its endpoint, and one
\* success for the item.
\* ------------------------------------------------------------------------
\* item n succeeded and every one of its attempts used a proxy endpoint
SucceededWithProxies(n) ==
    /\ \E k \in ItemAttempts(n) : attemptLog[k].ok
    /\ \A k \in ItemAttempts(n) : attemptLog[k].proxy # None
\* item n took all its attempts and none succeeded
Exhausted(n) ==
    /\ Cardinality(ItemAttempts(n)) = proxy_retries
    /\ \A k \in ItemAttempts(n) : ~attemptLog[k].ok
\* the records / failure records with the id of item n are those of the items
\* with that id that succeeded / were exhausted (an id can repeat in the input)
RecordsMatchItems(n) ==
    /\ Cardinality({j \in 1..Len(scraped_videos) :
                       scraped_videos[j]["video_id"] = video_ids[n]})
          = Cardinality({m \in 1..Len(video_ids) :
                       /\ video_ids[m] = video_ids[n]
                       /\ \E k \in ItemAttempts(m) : attemptLog[k].ok})
    /\ Cardinality({j \in 1..Len(failed_videos) :
                       failed_videos[j].video_id = video_ids[n]})
          = Cardinality({m \in 1..Len(video_ids) :
                       video_ids[m] = video_ids[n] /\ Exhausted(m)})
\* the failure count of every endpoint is the number of failed attempts made
\* with it
FailuresRecorded ==
    \A e \in Endpoints :
        proxy_failures[e] = Cardinality({k \in 1..Len(attemptLog) :
                                ~attemptLog[k].ok /\ attemptLog[k].proxy = e})
\* the successes the manager has recorded (successful_uses is the only count
\* of successes either manager keeps) are the successful attempts made with
\* a proxy endpoint
SuccessesRecorded ==
    successful_uses = Cardinality({k \in 1..Len(attemptLog) :
                          attemptLog[k].ok /\ attemptLog[k].proxy # None})

\* the record, the missing failure record and the recorded failures, without
\* the recorded success
C12_RetryThenSuccessParts ==
    program = "scraper" =>
        \A n \in 1..Len(video_ids) :
            SucceededWithProxies(n) => RecordsMatchItems(n) /\ FailuresRecorded

C12_FailuresAndOneSuccessRecorded ==
    program = "scraper" =>
        \A n \in 1..Len(video_ids) :
            SucceededWithProxies(n) =>
                RecordsMatchItems(n) /\ FailuresRecorded /\ SuccessesRecorded

\* the specified case: two failed attempts, then a success, on the first item
C12_TwoFailuresThenSuccess ==
    /\ program = "scraper"
    /\ Len(attemptLog) = 3
    /\ SucceededWithProxies(1)
    /\ ~attemptLog[1].ok /\ ~attemptLog[2].ok /\ attemptLog[3].ok
\* ------------------------------------------------------------------------
\* C13 as claimed: when all proxy_retries attempts for an item fail, exactly
\* one failure record is made for it, with the item's id, the reason
\* "skipped_after_retries" and attempts equal to proxy_retries.
\* ------------------------------------------------------------------------
\* the items whose attempts all failed, and the j-th of them in input order
ExhaustedItems == {n \in 1..Len(video_ids) : Exhausted(n)}
NthExhausted(j) ==
    CHOOSE n \in ExhaustedItems : Cardinality({m \in ExhaustedItems : m <= n}) = j
\* failed_videos holds one record per exhausted item, in input order, with
\* the given reason
OneFailureRecordEach(reason) ==
    /\ Len(failed_videos) = Cardinality(ExhaustedItems)
    /\ \A j \in 1..Len(failed_videos) :
          failed_videos[j] = [video_id |-> video_ids[NthExhausted(j)],
                              reason |-> reason,
                              attempts |-> proxy_retries]

C13_FailureRecordAfterRetries ==
    program = "scraper" => OneFailureRecordEach("skipped_after_retries")

\* ------------------------------------------------------------------------
\* C13 amended: when all proxy_retries attempts for an item fail, exactly one
\* failure record is made for it, with the item's id, the reason
\* "skipped_due_to_captcha" and attempts equal to proxy_retries.
\* ------------------------------------------------------------------------
C13_FailureRecordDueToCaptcha ==
    program = "scraper" => OneFailureRecordEach("skipped_due_to_captcha")

\* both items of a run were given up after all their attempts
C13_Witness ==
    /\ program = "scraper"
    /\ ExhaustedItems = {1, 2}
    /\ Len(failed_videos) = 2
\* ------------------------------------------------------------------------
\* C14 as claimed: enrich_with_api applied a second time to the records it
\* has enriched, with the same API data, leaves every field value and every
\* field_source_* tag as it was.
\* ------------------------------------------------------------------------
C14_EnrichIdempotent ==
    pc = "again" => scraped_videos = beforeEnrich

\* the field values of a record, without the field_source_* tags
SourceTags ==
    {"field_source_view_count", "field_source_like_count", "field_source_comment_count",
     "field_source_channel_stats"}
FieldValues(video) == [f \in (DOMAIN video) \ SourceTags |-> video[f]]

\* the second application leaves every field value as it was (the tags are
\* what it changes)
C14_ValuesUnchanged ==
    pc = "again" =>
        /\ Len(scraped_videos) = Len(beforeEnrich)
        /\ \A n \in 1..Len(scraped_videos) :
              FieldValues(scraped_videos[n]) = FieldValues(beforeEnrich[n])

\* a second application after the API filled a statistic
C14_Witness ==
    /\ pc = "again"
    /\ \E n \in 1..Len(beforeEnrich) :
          /\ Has(beforeEnrich[n], "field_source_view_count")
          /\ beforeEnrich[n]["field_source_view_count"] = "api"
\* ------------------------------------------------------------------------
\* C15 as claimed: when the aliases of more than one country occur in the
\* text, _extract_location_from_text returns as country the first of those
\* countries in the order of the table.
\* ------------------------------------------------------------------------
SetMax(S) == CHOOSE x \in S : \A y \in S : x >= y

C15_FirstAliasCountryWins ==
    (pc = "inferred" /\ Cardinality(CountriesByAlias(loc_text)) > 1) =>
        loc_result.country = Locations[SetMin(CountriesByAlias(loc_text))].country

\* what the loop does: the last of those countries in the order of the table
C15_LastAliasCountryWins ==
    (pc = "inferred" /\ Cardinality(CountriesByAlias(loc_text)) > 1) =>
        loc_result.country = Locations[SetMax(CountriesByAlias(loc_text))].country

\* a text with the aliases of two countries
C15_TwoAliasCountries ==
    /\ pc = "inferred"
    /\ Cardinality(CountriesByAlias(loc_text)) > 1
\* ------------------------------------------------------------------------
\* C16: the list search_channels returns is ordered by non-increasing
\* confidence score, and two records with equal score are in the order in
\* which their channels were processed.
\* ------------------------------------------------------------------------
\* enriched_channels[:max_results] once the search is done
ReturnedChannels == FirstN(enriched_channels, max_results)
\* the place of a channel in the order of processing
ProcessedAt(id) == CHOOSE k \in 1..Len(attemptLog) : attemptLog[k].id = id

C16_RankedStable ==
    (program = "find_creators" /\ pc = "done") =>
        \A j, k \in 1..Len(ReturnedChannels) :
            j < k =>
                /\ ReturnedChannels[j].confidence_score >= ReturnedChannels[k].confidence_score
                /\ ReturnedChannels[j].confidence_score = ReturnedChannels[k].confidence_score
                      => ProcessedAt(ReturnedChannels[j].channel_id)
                            < ProcessedAt(ReturnedChannels[k].channel_id)

\* two channels with equal score are returned
C16_Witness ==
    /\ program = "find_creators"
    /\ pc = "done"
    /\ Len(ReturnedChannels) = 2
    /\ ReturnedChannels[1].confidence_score = ReturnedChannels[2].confidence_score
\* ------------------------------------------------------------------------
\* C17 as claimed: after each item is processed the whole of the results
\* accumulated so far is written, so that between items the files hold
\* exactly the results of all items processed so far; after the last item
\* the final, score-sorted subset is written once more.
\* ------------------------------------------------------------------------
\* find_creators.py: between channels the channels file holds the records of
\* the channels processed so far, in order; at the end the first max_results
\* of the records sorted by score
ChannelsSnapshot ==
    /\ pc = "loop" =>
          /\ saved_channels = enriched_channels
          /\ IdsOf(enriched_channels, "channel_id")
                = [k \in 1..(i - 1) |-> channel_details[k].channel_id]
    /\ pc = "done" =>
          /\ saved_channels = FirstN(enriched_channels, max_results)
          /\ Len(enriched_channels) = Len(channel_details)
          /\ \A j, k \in 1..Len(enriched_channels) :
                j < k => enriched_channels[j].confidence_score
                            >= enriched_channels[k].confidence_score
\* scraper.py: the videos file holds the records of the videos scraped so far
VideosSnapshot == saved_videos = scraped_videos
\* scraper.py: between videos failed.csv holds the failure records so far
FailedSnapshot == (pc \in {"loop", "enrich", "done"} /\ attempt = 0) => saved_failed = failed_videos

C17_OnlyFailure ==
    /\ program = "scraper"
    /\ pc = "done"
    /\ Len(video_ids) = 1
    /\ Len(failed_videos) = 1
    /\ saved_failed = <<>>

\* ------------------------------------------------------------------------
\* C18 as claimed: items are processed one at a time and in full: when the
\* first extraction attempt of an item is about to start, the retries, the
\* fusion with API data, the scoring and the persistence of every earlier
\* item are complete (both scripts).
\* ------------------------------------------------------------------------
\* the loop is about to make the first attempt of item i, after other items
BetweenItems == pc = "loop" /\ attempt = 0 /\ i >= 2
\* the attempts of the log are those of one item after the other
ItemsInTurn ==
    \A j, k \in 1..Len(attemptLog) : j < k => attemptLog[j].item <= attemptLog[k].item
\* the retry loop of item n is over: its last attempt succeeded, or it took
\* all its attempts and none succeeded
Succeeded(n) ==
    /\ ItemAttempts(n) # {}
    /\ \A k \in ItemAttempts(n) : attemptLog[k].ok <=> k = SetMax(ItemAttempts(n))
RetriesOver ==
    /\ \A n \in 1..(i - 1) : Succeeded(n) \/ Exhausted(n)
    /\ Len(scraped_videos) = Cardinality({n \in 1..(i - 1) : Succeeded(n)})
    /\ Len(failed_videos) = Cardinality({n \in 1..(i - 1) : Exhausted(n)})
\* scraper.py calls enrich_with_api in the step that ends the run
VideosFused == (api_key # "" /\ scraped_videos # <<>>) => pc = "done"
\* every earlier channel is merged with its API data, scored and saved
ChannelsComplete ==
    /\ IdsOf(enriched_channels, "channel_id")
          = [k \in 1..(i - 1) |-> channel_details[k].channel_id]
    /\ \A k \in 1..Len(enriched_channels) :
          /\ "confidence_score" \in DOMAIN enriched_channels[k]
          /\ enriched_channels[k].subscriber_count
                = channel_details[k].api_data.statistics.subscriberCount
    /\ saved_channels = enriched_channels

C18_ItemCompleteBeforeNext ==
    /\ ItemsInTurn
    /\ BetweenItems =>
          /\ program = "find_creators" => ChannelsComplete
          /\ program = "scraper" =>
                /\ RetriesOver
                /\ VideosFused
                /\ saved_videos = scraped_videos
                /\ saved_failed = failed_videos

\* ------------------------------------------------------------------------
\* C18 amended: when the first extraction attempt of an item is about to
\* start, the retries of every earlier item are over and its record, if it
\* yielded one, is persisted; in find_creators.py it is also fused with its
\* API data and scored. scraper.py fuses all records at once after the last
\* item and persists a failure record only with the next record.
\* ------------------------------------------------------------------------
C18_ItemsOneAtATime ==
    /\ ItemsInTurn
    /\ BetweenItems =>
          /\ program = "find_creators" => ChannelsComplete
          /\ program = "scraper" => RetriesOver /\ saved_videos = scraped_videos

\* the second video is about to be tried after the first one took all its
\* attempts and yielded a record at the last, in a run with an API key
C18_Witness ==
    /\ program = "scraper"
    /\ api_key # ""
    /\ BetweenItems
    /\ Cardinality(ItemAttempts(1)) = proxy_retries
    /\ Succeeded(1)

\* the second channel is about to be scraped
C18_SecondChannel == program = "find_creators" /\ BetweenItems

\* ------------------------------------------------------------------------
\* C19: at the end of a run of scraper.py every item of the input is counted
\* exactly once, as scraped or as skipped: the number of items is the number
\* of scraped records plus the number of failure records, the scraped
\* records are those of the items that succeeded and the failure records
\* those of the items that took all their attempts without success, each in
\* the order of the input.
\* ------------------------------------------------------------------------
\* the ids of the items that satisfy Kind, in the order of the input
ItemIds(Kind(_)) ==
    LET items == SelectSeq([n \in 1..Len(video_ids) |-> n], Kind)
    IN  [k \in 1..Len(items) |-> video_ids[items[k]]]

C19_EveryItemCountedOnce ==
    (program = "scraper" /\ pc = "done") =>
        /\ Len(video_ids) = Len(scraped_videos) + Len(failed_videos)
        /\ \A n \in 1..Len(video_ids) : Succeeded(n) # Exhausted(n)
        /\ IdsOf(scraped_videos, "video_id") = ItemIds(Succeeded)
        /\ IdsOf(failed_videos, "video_id") = ItemIds(Exhausted)

\* a finished run of two items with the same id, the first skipped and the
\* second scraped
C19_Witness ==
    /\ program = "scraper"
    /\ pc = "done"
    /\ Len(video_ids) = 2
    /\ video_ids[1] = video_ids[2]
    /\ Exhausted(1)
    /\ Succeeded(2)

\* ------------------------------------------------------------------------
\* C20 as claimed: without the API key the run stops before any extraction
\* attempt, API call or file write, and no item is processed (both scripts).
\* ------------------------------------------------------------------------
NoAttempt == attemptLog = <<>>
NoApiCall ==
    /\ api_videos = EmptyDict
    /\ api_channels = EmptyDict
    /\ search_found = <<>>
    /\ channel_details = <<>>
NoFileWritten == saved_videos = <<>> /\ saved_failed = <<>> /\ saved_channels = <<>>
NoItemProcessed ==
    scraped_videos = <<>> /\ failed_videos = <<>> /\ enriched_channels = <<>>

C20_NothingWithoutKey ==
    api_key = "" =>
        /\ pc \in {"idle", "done"}
        /\ NoAttempt
        /\ NoApiCall
        /\ NoFileWritten
        /\ NoItemProcessed

\* ------------------------------------------------------------------------
\* C20 amended: without the API key find_creators.py stops before any
\* extraction attempt, API call or file write, and processes no item;
\* scraper.py, for which the key is optional, makes no API call but processes
\* every item of its input.
\* ------------------------------------------------------------------------
C20_KeyRequiredByFinder ==
    api_key = "" =>
        /\ program = "find_creators" =>
              /\ pc \in {"idle", "done"}
              /\ NoAttempt
              /\ NoApiCall
              /\ NoFileWritten
              /\ NoItemProcessed
        /\ program = "scraper" =>
              /\ NoApiCall
              /\ pc = "done" => Len(video_ids) = Len(scraped_videos) + Len(failed_videos)

\* find_creators.py has stopped for want of the key
C20_Witness == program = "find_creators" /\ api_key = "" /\ pc = "done"

\* scraper.py has scraped and saved a video without the key
C20_ScrapedWithoutKey ==
    /\ program = "scraper"
    /\ api_key = ""
    /\ pc = "done"
    /\ saved_videos # <<>>

\* ------------------------------------------------------------------------
\* C21 as claimed: in a run of the channel finder with at least two usable
\* proxies, after 4 channels in a row were scraped successfully through one
\* proxy, the scrape of the next channel uses a different proxy.
\* ------------------------------------------------------------------------
UsableProxies == {k \in 1..Len(proxies) : NotBlacklisted(proxy_failures, proxies[k])}
\* the attempts k .. k + rotation_interval - 1 succeeded through one proxy
FourThroughOne(k) ==
    /\ k + rotation_interval - 1 <= Len(attemptLog)
    /\ attemptLog[k].proxy # None
    /\ \A j \in k..(k + rotation_interval - 1) :
          attemptLog[j].ok /\ attemptLog[j].proxy = attemptLog[k].proxy

C21_RotatesEveryFour ==
    (program = "find_creators" /\ Cardinality(UsableProxies) >= 2) =>
        \A k \in 1..Len(attemptLog) :
            (FourThroughOne(k) /\ k + rotation_interval <= Len(attemptLog))
                => attemptLog[k + rotation_interval].proxy # attemptLog[k].proxy

\* what the finder does: no success is ever counted and every channel is
\* scraped through the first proxy
C21_NeverRotates ==
    program = "find_creators" =>
        /\ successful_uses = 0
        /\ \A k \in 1..Len(attemptLog) :
              attemptLog[k].proxy = IF proxies = <<>> THEN None ELSE proxies[1]

\* five channels were scraped successfully, all through one proxy
C21_FiveThroughOne ==
    /\ program = "find_creators"
    /\ Cardinality(UsableProxies) >= 2
    /\ FourThroughOne(1)
    /\ Len(attemptLog) = rotation_interval + 1
    /\ attemptLog[rotation_interval + 1].ok
    /\ attemptLog[rotation_interval + 1].proxy = attemptLog[1].proxy

\* ------------------------------------------------------------------------
\* C22 as claimed: every sample-video title that mentions a country or a
\* city adds half of its own estimate's confidence to the aggregate and puts
\* "video_titles" in sources, whatever the target location, none included;
\* for the about text "Toronto" and the one title "Canada" the aggregate has
\* confidence 20 and sources about_page, video_titles.
\* ------------------------------------------------------------------------
Toronto == <<"T", "o", "r", "o", "n", "t", "o">>
Canada == <<"C", "a", "n", "a", "d", "a">>
\* the estimate of the k-th sample video's title
TitleEstimate(k) ==
    _extract_location_from_text(scraped_data.sample_videos[k]["video_title"], location)
TitleMentions(k) ==
    TitleEstimate(k).country # NoneText \/ TitleEstimate(k).city # NoneText
MentioningTitles == {k \in 1..Len(scraped_data.sample_videos) : TitleMentions(k)}
RECURSIVE HalfSum(_)
\* the halves of the confidences of the titles in K, in hundredths
HalfSum(K) ==
    IF K = {} THEN 0
    ELSE LET k == CHOOSE x \in K : TRUE
         IN  (TitleEstimate(k).confidence * Hundredths) \div 2 + HalfSum(K \ {k})
AboutEstimate == _extract_location_from_text(scraped_data.about_text, location)
AboutGivesCountry ==
    TruthyText(scraped_data.about_text) /\ AboutEstimate.country # NoneText
AboutPart == IF AboutGivesCountry THEN AboutEstimate.confidence * Hundredths ELSE 0
\* +5 for a website, when neither the about text nor a title of K gave a country
DomainPart(K) ==
    IF /\ ~AboutGivesCountry
       /\ \A k \in K : TitleEstimate(k).country = NoneText
       /\ \E n \in 1..Len(scraped_data.websites) :
             _infer_country_from_domain(scraped_data.websites[n]) # NoneText
    THEN 5 * Hundredths ELSE 0
InSources(tag) ==
    \E n \in 1..Len(scraped_data.detected_location.sources) :
        scraped_data.detected_location.sources[n] = tag
\* the aggregate counts the titles in K at half weight
TitlesCounted(K) ==
    /\ scraped_data.detected_location.confidence
          = CapConfidence(AboutPart + HalfSum(K) + DomainPart(K))
    /\ InSources("video_titles") <=> K # {}
TorontoAndCanada ==
    /\ scraped_data.about_text = Toronto
    /\ Len(scraped_data.sample_videos) = 1
    /\ scraped_data.sample_videos[1]["video_title"] = Canada
ScenarioResult ==
    /\ scraped_data.detected_location.confidence = 20 * Hundredths
    /\ scraped_data.detected_location.sources = <<"about_page", "video_titles">>

C22_TitlesAtHalfWeightAnyTarget ==
    pc = "aggregated" =>
        /\ TitlesCounted(MentioningTitles)
        /\ TorontoAndCanada => ScenarioResult

\* ------------------------------------------------------------------------
\* C22 amended: when a target location is given, every sample-video title
\* that mentions a country or a city adds half of its own estimate's
\* confidence to the aggregate (which is capped at 20) and puts
\* "video_titles" in sources, and the about text "Toronto" with the one
\* title "Canada" gives confidence 20 and sources about_page, video_titles;
\* without a target location no title is examined and the titles add
\* nothing.
\* ------------------------------------------------------------------------
C22_TitlesAtHalfWeightWithTarget ==
    pc = "aggregated" =>
        /\ TitlesCounted(IF TruthyText(location) THEN MentioningTitles ELSE {})
        /\ (TorontoAndCanada /\ TruthyText(location)) => ScenarioResult

\* the scenario, with a target location
C22_Witness ==
    /\ pc = "aggregated"
    /\ TruthyText(location)
    /\ TorontoAndCanada
    /\ ScenarioResult

\* the scenario without a target location: the title is not counted
C22_TitleIgnored ==
    /\ pc = "aggregated"
    /\ ~TruthyText(location)
    /\ TorontoAndCanada
    /\ scraped_data.detected_location.confidence = 15 * Hundredths
    /\ scraped_data.detected_location.sources = <<"about_page">>

\* ------------------------------------------------------------------------
\* C23 as claimed: the retry loop asks the pool for a forced rotation exactly
\* when the previous attempt for the same item failed: the first attempt for
\* an item is made without forced rotation and takes the proxy the attempt
\* before it took (no success is ever counted, so the streak never reaches
\* rotation_interval), and each retry after a failure is made with forced
\* rotation.
\* ------------------------------------------------------------------------
\* attempt k of the log is a retry: the attempt before it was for the same item
IsRetry(k) == k > 1 /\ attemptLog[k - 1].item = attemptLog[k].item
NoneBlacklisted == \A k \in 1..Len(proxies) : NotBlacklisted(proxy_failures, proxies[k])

\* the endpoint at position k of a round over the pool
RoundRobin(k) == IF proxies = <<>> THEN None ELSE proxies[((k - 1) % Len(proxies)) + 1]

SourceOrder == <<"about_page", "video_titles", "domain">>
SourceRank(tag) == CHOOSE n \in 1..Len(SourceOrder) : SourceOrder[n] = tag
SourcesInOrder(sources) ==
    /\ \A k \in 1..Len(sources) : \E n \in 1..Len(SourceOrder) : SourceOrder[n] = sources[k]
    /\ \A j, k \in 1..Len(sources) : j < k => SourceRank(sources[j]) < SourceRank(sources[k])

C24_SourcesOnceInOrder ==
    /\ pc = "aggregated" => SourcesInOrder(scraped_data.detected_location.sources)
    /\ \A k \in 1..Len(enriched_channels) :
          SourcesInOrder(enriched_channels[k].location_sources)

\* two titles contributed after the about text, and the tag is there once
C24_Witness ==
    /\ pc = "aggregated"
    /\ TruthyText(location)
    /\ Cardinality(MentioningTitles) = 2
    /\ scraped_data.detected_location.sources = <<"about_page", "video_titles">>

\* two websites have a country domain, and the tag is there once
C24_TwoDomains ==
    /\ pc = "aggregated"
    /\ Cardinality({n \in 1..Len(scraped_data.websites) :
           _infer_country_from_domain(scraped_data.websites[n]) # NoneText}) = 2
    /\ scraped_data.detected_location.sources = <<"domain">>

\* ------------------------------------------------------------------------
\* C25: the text-relevance part of the score is 40 when the query is a
\* case-insensitive substring of the title; else 30 when of the description;
\* else 20 when of the about text; else 20 times the share of the query's
\* words that occur in the title or the description; it is within 0..40 and
\* is defined for every query of a search.
\* ------------------------------------------------------------------------
\* what is left of the score of a channel without its other three parts
TextRelevance(ch) ==
    ch.confidence_score
        - SubscriberScore(ch.subscriber_count)
        - LocationScore(ch, location)
        - ContactScore(ch)
InText(part, text) == Contains(Lower(part), Lower(OrEmpty(text)))
QueryWords == Split(Lower(query))
MatchedWords(ch) ==
    {k \in 1..Len(QueryWords) :
        InText(QueryWords[k], ch.channel_name) \/ InText(QueryWords[k], ch.channel_description)}
\* v is matched / total * 20 to the nearest hundredth
IsWordShare(v, matched, total) ==
    /\ total > 0
    /\ 2 * (v * total - matched * 20 * Hundredths) <= total
    /\ 2 * (matched * 20 * Hundredths - v * total) <= total
RelevanceAsStated(ch) ==
    IF InText(query, ch.channel_name) THEN TextRelevance(ch) = 40 * Hundredths
    ELSE IF InText(query, ch.channel_description) THEN TextRelevance(ch) = 30 * Hundredths
    ELSE IF InText(query, ch.about_text) THEN TextRelevance(ch) = 20 * Hundredths
    ELSE IsWordShare(TextRelevance(ch), Cardinality(MatchedWords(ch)), Len(QueryWords))

C26_SearchTerminates == (pc = "searching") ~> (pc = "searched")

\* while it runs the search holds fewer items than it was asked for
C26_SearchingBelowLimit ==
    pc = "searching" => Len(results) < max_results * 2

\* the search has been answered with a token and no items, and goes on
C26_EmptyPageWithToken ==
    /\ pc = "searching"
    /\ results = <<>>
    /\ page_token # None

\* ------------------------------------------------------------------------
\* C27 as claimed: for a count text of the documented shapes, a plain or
\* comma-grouped integer or a decimal with a K, M or B suffix, followed by a
\* word, _parse_count returns the number written ('1,234 likes' gives 1234,
\* '1,234 Comments' gives 1234, '1.2M views' gives 1200000); the word after
\* the number never changes the result.
\* ------------------------------------------------------------------------
\* the place of the blank between the number and the word (0: no word)
BlankAt(text) ==
    IF HasChar(text, " ") THEN CHOOSE k \in 1..Len(text) : text[k] = " " ELSE 0
NumberPart(text) == SubSeq(text, 1, BlankAt(text) - 1)
WordPart(text) == SubSeq(text, BlankAt(text) + 1, Len(text))
SuffixValue(c) == IF c = "K" THEN 1000 ELSE IF c = "M" THEN 1000000 ELSE 1000000000
\* the number a decimal writes, times a power of ten that clears its decimals
DecimalTimes(num, multiplier) ==
    LET dot == IF HasChar(num, ".") THEN CHOOSE k \in 1..Len(num) : num[k] = "." ELSE 0
        decimals == IF dot = 0 THEN 0 ELSE Len(num) - dot
    IN  DigitsValue(RemoveChar(num, ".")) * (multiplier \div Pow10(decimals))
\* the number written by a number part
WrittenNumber(number) ==
    LET num == RemoveChar(number, ",")
        last == num[Len(num)]
    IN  IF last \in {"K", "M", "B"}
        THEN DecimalTimes(SubSeq(num, 1, Len(num) - 1), SuffixValue(last))
        ELSE DigitsValue(num)
DocumentedShape(text) == BlankAt(text) > 1 /\ WordPart(text) # <<>>

C27_ParsesWrittenNumber ==
    (pc = "parsed" /\ DocumentedShape(count_text)) =>
        parsed = WrittenNumber(NumberPart(count_text))

\* what holds of the code: the number written is returned when the word
\* after it has none of the letters k, m and b
WordHasSuffixLetter(text) ==
    \E c \in {"K", "M", "B"} : HasChar(Upper(WordPart(text)), c)
C27_ParsesWhenWordHasNoSuffixLetter ==
    (pc = "parsed" /\ DocumentedShape(count_text) /\ ~WordHasSuffixLetter(count_text)) =>
        parsed = WrittenNumber(NumberPart(count_text))

\* '1,234 likes' was parsed as 1234000
C27_LikesAsThousands ==
    /\ pc = "parsed"
    /\ count_text = <<"1", ",", "2", "3", "4", " ", "l", "i", "k", "e", "s">>
    /\ parsed = 1234000

\* '1.2M views' was parsed as 1200000
C27_MillionViews ==
    /\ pc = "parsed"
    /\ count_text = <<"1", ".", "2", "M", " ", "v", "i", "e", "w", "s">>
    /\ parsed = 1200000

\* ------------------------------------------------------------------------
\* C28: in a run of the scraper, where every report_failure is for the
\* endpoint the get_next_proxy just before it returned, the failure count of
\* every endpoint is between 0 and blacklist_threshold in every reachable
\* state, and no step lowers it, however many items are processed.
\* ------------------------------------------------------------------------
FailureCountsInRange ==
    \A e \in Endpoints :
        proxy_failures[e] >= 0 /\ proxy_failures[e] <= blacklist_threshold
FailureCountsKept ==
    \A e \in Endpoints : proxy_failures'[e] >= proxy_failures[e]
C28_FailureCountBounded ==
    [](program = "scraper" => FailureCountsInRange) /\ [][FailureCountsKept]_vars

\* an endpoint reached the threshold during the first item's successor, and
\* the attempt after that ran without a proxy and left the count as it was
C28_Witness ==
    /\ program = "scraper"
    /\ \E e \in Range(proxies) : proxy_failures[e] = blacklist_threshold
    /\ Len(attemptLog) = blacklist_threshold + 1
    /\ attemptLog[blacklist_threshold + 1].item = 2
    /\ attemptLog[blacklist_threshold + 1].proxy = None

\* ------------------------------------------------------------------------
\* C29: in find_creators.py every channel that passes the filter of already
\* scraped ids is merged, scored, appended to the result list, added to
\* scraped_channel_ids and saved exactly once, also when scrape_channel caught
\* an error; there is exactly one extraction attempt per channel, nothing is
\* reported to the proxy manager and no failure record is produced.
\* ------------------------------------------------------------------------
Occurrences(ids, id) == Cardinality({n \in 1..Len(ids) : ids[n] = id})
\* one attempt for each channel of the filtered list so far, in its order,
\* none for a channel of an earlier result file
OneAttemptEach ==
    /\ Len(attemptLog) <= Len(channel_details)
    /\ pc = "done" => Len(attemptLog) = Len(channel_details)
    /\ \A k \in 1..Len(attemptLog) :
          /\ attemptLog[k].id = channel_details[k].channel_id
          /\ ~attemptLog[k].seen
          /\ Occurrences(IdsOf(attemptLog, "id"), attemptLog[k].id) = 1
\* the record of the channel tried at attempt k: merged with its API data and scored
MergedAndScored(k) ==
    LET id == attemptLog[k].id
        rows == {n \in 1..Len(enriched_channels) : enriched_channels[n].channel_id = id}
    IN  /\ Cardinality(rows) = 1
        /\ \A n \in rows :
              /\ enriched_channels[n].subscriber_count
                    = channel_details[k].api_data.statistics.subscriberCount
              /\ enriched_channels[n].confidence_score
                    = _calculate_confidence(enriched_channels[n], query, location)
NothingReported ==
    /\ op \in {"init", "get"}
    /\ successful_uses = 0
    /\ \A e \in Endpoints : proxy_failures[e] = 0 /\ failCalls[e] = 0
NoFailureRecord == failed_videos = <<>> /\ saved_failed = <<>>

AddedIds == {attemptLog[k].id : k \in 1..Len(attemptLog)}
\* the channel_id column of the result file, as _load_scraped_history reads it
FileIds == {saved_channels[n].channel_id : n \in 1..Len(saved_channels)}
RunEnded == program = "find_creators" /\ pc = "done"

C30_SeenIdsInFinalFile ==
    RunEnded => (AddedIds \subseteq scraped_channel_ids /\ AddedIds \subseteq FileIds)

\* what holds of the code: the final file has every processed id when the run
\* processed no more channels than max_results
C30_SeenIdsInFileWithinLimit ==
    (RunEnded /\ Len(channel_details) <= max_results) =>
        (AddedIds \subseteq scraped_channel_ids /\ AddedIds \subseteq FileIds)

\* a run with max_results = 1 processed two channels; the final file has one
\* of them, and a later run would process the other one again
C30_ProcessedButNotInFile ==
    /\ RunEnded
    /\ max_results = 1
    /\ Cardinality(AddedIds) = 2
    /\ \E id \in AddedIds : id \in scraped_channel_ids /\ NotScraped(id, FileIds)

====
